---- MODULE Spec2Model ----
(***************************************************************************)
(* A model of the incremental sync pipeline of Archon:                     *)
(*   - CircuitBreaker      (services/sync/error_handler.py)                *)
(*   - SyncQueue           (services/sync/sync_queue.py)                   *)
(*   - IncrementalSyncService (services/sync/incremental_sync_service.py)  *)
(*   - DebouncerService / SyncWorker (services/sync/debouncer.py,          *)
(*     services/sync/sync_worker.py)                                       *)
(* Each component has its own variables, initial predicate and next-state  *)
(* relation; a specification runs one component and leaves the others in   *)
(* their initial state.                                                    *)
(***************************************************************************)
EXTENDS Integers, Sequences, FiniteSets, Bags, TLC

(***************************************************************************)
(* Bounds of the model.                                                    *)
(***************************************************************************)
\* concurrent callers of CircuitBreaker.call
NCallers == 2
\* the clock of the circuit breaker stops here
MaxTime == 4
\* projects known to the SyncQueue
NProjects == 3
\* tasks that call SyncQueue.execute_next
NExec == 4
\* SyncQueue.enqueue is called at most this many times
MaxOps == 4
\* projects with watched directories
NWatched == 2
\* file paths of a project
NFiles == 3
\* concurrent callers of RateLimiter.acquire
NLimited == 3
\* the files given to chunk_file have at most this many characters, and
\* max_lines is at most this
MaxChars == 5
MaxMaxLines == 3
\* process_files is given at most this many paths, of this many files
MaxInputs == 3
NInputFiles == 2
\* the restarts and the restart failures the health monitor is followed for
MaxRestarts == 2
MaxFailureCount == 3
\* the projects the discovery of the worker finds
NDiscovered == 3
\* the projects, file paths, checkpoints and chunk rows of the recovery service
NRecProjects == 2
NPaths == 1
MaxCheckpoints == 2
MaxChunkId == 2
\* embed_batch is given at most this many texts
MaxTexts == 3
\* timestamps of the file events
MaxStamp == 2
\* DebouncerService.add_event is called at most this many times
MaxEvents == 3
\* files of the project that the sync engine indexes
NSourceFiles == 1
\* the Chunker cuts a file into at most this many chunks
MaxChunks == 2

(***************************************************************************)
(* Parameters of CircuitBreaker.__init__, instantiated small.              *)
(***************************************************************************)
failure_threshold == 2
timeout == 1
half_open_max_calls == 1

(***************************************************************************)
(* Parameter of SyncQueue.__init__, instantiated small.                    *)
(***************************************************************************)
max_concurrent == 2

(***************************************************************************)
(* Parameter of DebouncerService.__init__, instantiated small.             *)
(***************************************************************************)
max_batch_size == 2
debounce_seconds == 2

(***************************************************************************)
(* Parameters of RateLimiter.__init__, instantiated small.                 *)
(***************************************************************************)
rate_limit == 2
time_window == 2

(***************************************************************************)
(* Parameter of ParallelFileProcessor.__init__, instantiated small.        *)
(***************************************************************************)
max_workers == 2

(***************************************************************************)
(* Parameters of HealthMonitor.__init__, instantiated small.               *)
(***************************************************************************)
heartbeat_timeout == 2
max_failures == 2

(***************************************************************************)
(* Parameters of BatchEmbedder.__init__, instantiated small.               *)
(***************************************************************************)
embed_batch_size == 2
max_retries == 2

VARIABLES
    \* ---- CircuitBreaker (error_handler.py:127-134)
    state,              \* "closed" | "open" | "half_open"
    failure_count,
    last_failure_time,  \* NoTime or the clock value of the last failure
    half_open_calls,
    now,                \* datetime.now()
    cpc,                \* caller -> where it is in CircuitBreaker.call
    \* history of the breaker, for stating the claims
    consec,             \* failed calls completed since the last successful one
    admitted_in,        \* caller -> state of the breaker when its call was admitted
    trials,             \* callers in progress, admitted in the present Half-Open period
    \* ---- SyncQueue (sync_queue.py:49-62)
    queues,             \* project_id -> the heap list of its asyncio.PriorityQueue
    active_syncs,
    operations,         \* the tracked SyncOperations (the values of the dict)
    operation_counter,  \* _operation_counter
    sem_value,          \* semaphore._value
    sem_waiters,        \* semaphore._waiters, in arrival order
    qpc,                \* task -> where it is in execute_next
    qproj,              \* task -> the project_id of its execute_next call
    qop,                \* task -> the operation it dequeued
    enq_raised,         \* the last enqueue call raised TypeError
    last_done,          \* the operation whose sync_func was the last to finish
    \* ---- DebouncerService (debouncer.py:48-57), SyncWorker (sync_worker.py:56-62)
    running,            \* SyncWorker.running
    pending_events,     \* project_id -> file_path -> the pending event
    timers,             \* project_id -> the seconds its timer task has yet to sleep
    events_sync,        \* the sync invocation _process_events_loop is suspended in
    timer_sync,         \* project_id -> the sync invocation its timer task is suspended in
    flush_all_todo,     \* the projects a flush_all in progress has yet to flush
    \* history of the debouncer, for stating the claims
    event_counter,      \* add_event calls so far; the id of the last event
    latest,             \* project_id -> file_path -> greatest timestamp added since the flush
    quiet,              \* project_id -> seconds since its last add_event, events pending
    delivered,          \* event id -> callback invocations that were given the event
    removed,            \* ids of the events a flush took out of pending_events
    last_flush,         \* what the last callback invocation was given
    \* ---- IncrementalSyncService, one project and its codebase source
    disk,               \* the files under local_path: path -> content
    knowledge_chunks,   \* path -> the bag of the stored chunks of that file
    stats,              \* the SyncStats of the sync that has just returned
    synced,             \* a full-scan sync has run since the last change on disk
    \* ---- the row of the project in the projects table, and the jobs
    project_row,        \* [sync_status, last_sync_error]
    jobs,               \* caller -> its sync_project_changes call, present or last
    \* ---- RateLimiter (batch_embedder.py:44-47)
    request_times,      \* the deque, as the ages in seconds of its timestamps
    lock_queue,         \* the tasks at _lock: the holder first, then the waiters
    sleeping,           \* the seconds the holder has yet to sleep, or NotSleeping
    \* history of the limiter, for stating the claims
    admitted_ages,      \* ages of the admissions less than time_window seconds old
    last_wait,          \* the seconds the last admitted call was made to sleep
    \* ---- BatchEmbedder.embed_batch, one call (batch_embedder.py:130-262)
    e_texts,            \* the texts given to embed_batch
    e_pos,              \* i + 1: where the batch in hand starts in the texts
    embeddings,         \* the list embed_batch builds
    retries,            \* of _embed_batch_with_retry for the batch in hand
    epc,                \* where the call is
    backoff,            \* the seconds of the sleep before the retry
    \* history of the call, for stating the claims
    failed_texts,       \* the positions whose embed() call raised
    \* ---- the embeddings in knowledge_chunks (incremental_sync_service.py:250-310, 474-681)
    chunk_rows,         \* the rows of knowledge_chunks, with their embedding
    \* history, for stating the claims
    last_call,          \* the last file processed: path taken, failures, rows inserted
    \* ---- RecoveryService and the tables it works on (recovery_service.py)
    checkpoints,        \* sync_checkpoints, in the order of created_at
    store_chunks,       \* knowledge_chunks: id, project of the source, metadata.file_path
    next_chunk_id,      \* the id of the next row of knowledge_chunks
    on_disk,            \* the file paths that exist
    local_paths,        \* the projects whose row has a local_path
    \* history, for stating the claims
    trail,              \* the audits and the cleanup of a project that followed one another
    \* ---- SyncWorker._discover_auto_sync_projects (sync_worker.py:178-215)
    project_modes,      \* the rows of projects: "off" (auto_sync_enabled false),
                        \* "realtime", "periodic" or "manual" (auto-sync with that sync_mode)
    watched_projects,   \* self.watched_projects
    observers,          \* the projects the file watcher has an observer for
    \* history, for stating the claims
    last_pass,          \* the last discovery pass: watchers started and stopped
    \* ---- HealthMonitor and the worker it watches (health_monitor.py)
    worker_running,     \* worker.running, as the monitor reads it
    heartbeat_age,      \* seconds since worker.last_heartbeat, NoHeartbeat when None
    hm_failure_count,   \* self.failure_count of the monitor
    restart_count,      \* self.restart_count
    \* history, for stating the claims
    failed_restarts,    \* the failed restart attempts since the last successful one
    last_check,         \* what the last iteration of monitor_loop found and did
    \* ---- ParallelFileProcessor.process_files, one call (parallel_processor.py:112-237)
    pp_file_paths,      \* the file_paths of the call
    task_pc,            \* where the task of each position is
    semaphore,          \* the value of the semaphore of the call
    task_results,       \* the ProcessingResult each finished task returned
    progress,           \* self.progress: processed_files and failed_files
    pp_returned,        \* what process_files returned, NotReturned before
    \* history, for stating the claims
    pp_raised,          \* the positions whose process_func raised
    \* ---- Chunker.chunk_file, one call (chunker.py:33-307)
    chunk_call,         \* the arguments of the call in hand, NoChunkCall when none
    returned_chunks     \* the list chunk_file returned

cbvars == <<state, failure_count, last_failure_time, half_open_calls, now, cpc,
            consec, admitted_in, trials>>

qvars == <<queues, active_syncs, operations, operation_counter, sem_value,
           sem_waiters, qpc, qproj, qop, enq_raised, last_done>>

dvars == <<pending_events, timers, flush_all_todo, event_counter, latest, quiet,
           delivered, removed, last_flush>>

wvars == <<running, events_sync, timer_sync, dvars>>

svars == <<disk, knowledge_chunks, stats, synced>>

pvars == <<project_row, jobs>>

rvars == <<request_times, lock_queue, sleeping, admitted_ages, last_wait>>

evars == <<e_texts, e_pos, embeddings, retries, epc, backoff, failed_texts>>

kvars == <<chunk_rows, last_call>>

rcvars == <<checkpoints, store_chunks, next_chunk_id, on_disk, local_paths, trail>>

dcvars == <<project_modes, watched_projects, observers, last_pass>>

hvars == <<worker_running, heartbeat_age, hm_failure_count, restart_count, failed_restarts, last_check>>

ppvars == <<pp_file_paths, task_pc, semaphore, task_results, progress, pp_returned, pp_raised>>

chvars == <<chunk_call, returned_chunks>>

vars == <<cbvars, qvars, wvars, svars, pvars, rvars, evars, kvars, rcvars, dcvars, hvars, ppvars, chvars>>

\* what each component leaves alone
notCB == <<qvars, wvars, svars, pvars, rvars, evars, kvars, rcvars, dcvars, hvars, ppvars, chvars>>
notQ == <<cbvars, wvars, svars, pvars, rvars, evars, kvars, rcvars, dcvars, hvars, ppvars, chvars>>
notW == <<cbvars, qvars, svars, pvars, rvars, evars, kvars, rcvars, dcvars, hvars, ppvars, chvars>>
notS == <<cbvars, qvars, wvars, pvars, rvars, evars, kvars, rcvars, dcvars, hvars, ppvars, chvars>>
notR == <<cbvars, qvars, wvars, svars, pvars, evars, kvars, rcvars, dcvars, hvars, ppvars, chvars>>
notE == <<cbvars, qvars, wvars, svars, pvars, rvars, kvars, rcvars, dcvars, hvars, ppvars, chvars>>
notK == <<cbvars, qvars, wvars, svars, pvars, rvars, evars, rcvars, dcvars, hvars, ppvars, chvars>>
notRC == <<cbvars, qvars, wvars, svars, pvars, rvars, evars, kvars, dcvars, hvars, ppvars, chvars>>
notDC == <<cbvars, qvars, wvars, svars, pvars, rvars, evars, kvars, rcvars, hvars, ppvars, chvars>>
notH == <<cbvars, qvars, wvars, svars, pvars, rvars, evars, kvars, rcvars, dcvars, ppvars, chvars>>
notPP == <<cbvars, qvars, wvars, svars, pvars, rvars, evars, kvars, rcvars, dcvars, hvars, chvars>>
notCH == <<cbvars, qvars, wvars, svars, pvars, rvars, evars, kvars, rcvars, dcvars, hvars, ppvars>>

(***************************************************************************)
(*                            CircuitBreaker                               *)
(***************************************************************************)
Callers == 1..NCallers
NoTime == -1

\* error_handler.py:152-153
TimeoutElapsedMut ==
    last_failure_time # NoTime /\ now - last_failure_time >= timeout
TimeoutElapsed ==
    last_failure_time # NoTime /\ now - last_failure_time > timeout

\* error_handler.py:170
HalfOpenFullMut(hoc) == hoc > half_open_max_calls
HalfOpenFull(hoc) == hoc >= half_open_max_calls

\* error_handler.py:203
ThresholdReachedMut(fc) == fc > failure_threshold
ThresholdReached(fc) == fc >= failure_threshold

\* error_handler.py:186-188: the state _on_success leaves
OnSuccessStateMut(st) == "closed"
OnSuccessState(st) == IF st = "half_open" THEN "closed" ELSE st

\* error_handler.py:198-208: the state _on_failure leaves, fc the new count
OnFailureState(st, fc) ==
    IF st = "half_open" THEN "open"
    ELSE IF ThresholdReached(fc) THEN "open"
    ELSE st

CBInit ==
    /\ state = "closed"
    /\ failure_count = 0
    /\ last_failure_time = NoTime
    /\ half_open_calls = 0
    /\ now = 0
    /\ cpc = [t \in Callers |-> "idle"]
    /\ consec = 0
    /\ admitted_in = [t \in Callers |-> "none"]
    /\ trials = {}

\* CircuitBreaker.call up to the await of the guarded function
\* (error_handler.py:150-177): no suspension point, one step.
BreakerCall(t) ==
    /\ cpc[t] = "idle"
    /\ LET toHalf     == state = "open" /\ TimeoutElapsed
           rejectOpen == state = "open" /\ ~TimeoutElapsed
           st1        == IF toHalf THEN "half_open" ELSE state
           hoc1       == IF toHalf THEN 0 ELSE half_open_calls
           rejectHalf == ~rejectOpen /\ st1 = "half_open" /\ HalfOpenFull(hoc1)
           rejected   == rejectOpen \/ rejectHalf
           hoc2       == IF st1 = "half_open" /\ ~rejected THEN hoc1 + 1 ELSE hoc1
           tr1        == IF toHalf THEN {} ELSE trials
       IN  /\ state' = st1
           /\ half_open_calls' = hoc2
           /\ cpc' = [cpc EXCEPT ![t] = IF rejected THEN "rejected" ELSE "running"]
           /\ admitted_in' = [admitted_in EXCEPT ![t] = IF rejected THEN "none" ELSE st1]
           /\ trials' = IF st1 = "half_open" /\ ~rejected THEN tr1 \cup {t} ELSE tr1
    /\ UNCHANGED <<failure_count, last_failure_time, now, consec>>

CallEnter(t) == BreakerCall(t) /\ UNCHANGED notCB

\* the guarded function returned: _on_success (error_handler.py:178-179, 184-191)
on_success(t) ==
    /\ cpc[t] = "running"
    /\ state' = OnSuccessState(state)
    /\ failure_count' = 0
    /\ last_failure_time' = NoTime
    /\ cpc' = [cpc EXCEPT ![t] = "returned"]
    /\ consec' = 0
    /\ trials' = trials \ {t}
    /\ UNCHANGED <<half_open_calls, now, admitted_in>>

CallSucceed(t) == on_success(t) /\ UNCHANGED notCB

\* the guarded function raised an Exception: _on_failure
\* (error_handler.py:180-182, 193-208)
on_failure(t) ==
    /\ cpc[t] = "running"
    /\ failure_count' = failure_count + 1
    /\ last_failure_time' = now
    /\ state' = OnFailureState(state, failure_count + 1)
    /\ cpc' = [cpc EXCEPT ![t] = "raised"]
    /\ consec' = consec + 1
    /\ trials' = trials \ {t}
    /\ UNCHANGED <<half_open_calls, now, admitted_in>>

CallFail(t) == on_failure(t) /\ UNCHANGED notCB

\* the calling task is cancelled while it awaits the guarded function:
\* CancelledError is no Exception, so neither _on_success nor _on_failure runs
\* (error_handler.py:176-182; sync_worker.py:100-105 cancels the tasks)
CallCancel(t) ==
    /\ cpc[t] = "running"
    /\ cpc' = [cpc EXCEPT ![t] = "cancelled"]
    /\ trials' = trials \ {t}
    /\ UNCHANGED <<state, failure_count, last_failure_time, half_open_calls, now,
                   consec, admitted_in>>
    /\ UNCHANGED notCB

\* the caller has seen the outcome and may call again
CallerDone(t) ==
    /\ cpc[t] \in {"rejected", "returned", "raised", "cancelled"}
    /\ cpc' = [cpc EXCEPT ![t] = "idle"]
    /\ admitted_in' = [admitted_in EXCEPT ![t] = "none"]
    /\ UNCHANGED <<state, failure_count, last_failure_time, half_open_calls, now,
                   consec, trials>>
    /\ UNCHANGED notCB

\* one second passes
Tick ==
    /\ now < MaxTime
    /\ now' = now + 1
    /\ UNCHANGED <<state, failure_count, last_failure_time, half_open_calls, cpc,
                   consec, admitted_in, trials>>
    /\ UNCHANGED notCB

CBNext ==
    \/ \E t \in Callers : CallEnter(t)
    \/ \E t \in Callers : CallSucceed(t)
    \/ \E t \in Callers : CallFail(t)
    \/ \E t \in Callers : CallCancel(t)
    \/ \E t \in Callers : CallerDone(t)
    \/ Tick

(***************************************************************************)
(*                               SyncQueue                                 *)
(***************************************************************************)
Projects == 1..NProjects
ExecTasks == 1..NExec
\* SyncPriority (sync_queue.py:18-21)
MANUAL == 0
AUTO == 1
NoOp == [operation_id |-> 0, project_id |-> 0, priority |-> 0]
\* the callers of execute_next: each task serves one project, and the tasks
\* beyond NProjects are further callers for projects that already have one
ProjectOf(t) == ((t - 1) % NProjects) + 1

\* (priority, operation) < (priority, operation) as Python compares the tuples
\* put on the PriorityQueue (sync_queue.py:101): the priorities decide unless
\* they are equal; then the SyncOperations are compared, and the dataclass
\* (sync_queue.py:24-31) defines no order: TypeError.
TupleLess(a, b) ==
    IF a.priority < b.priority THEN "lt"
    ELSE IF a.priority > b.priority THEN "ge"
    ELSE "TypeError"

Swap(h, i, j) == [h EXCEPT ![i] = h[j], ![j] = h[i]]

\* heapq's _siftdown on the list h (positions from 1): the item at pos moves
\* towards the root while it is less than its parent
RECURSIVE SiftDown(_, _, _)
SiftDown(h, startpos, pos) ==
    IF pos <= startpos THEN [heap |-> h, err |-> FALSE]
    ELSE LET parentpos == pos \div 2
             c == TupleLess(h[pos], h[parentpos])
         IN  IF c = "TypeError" THEN [heap |-> h, err |-> TRUE]
             ELSE IF c = "ge" THEN [heap |-> h, err |-> FALSE]
             ELSE SiftDown(Swap(h, pos, parentpos), startpos, parentpos)

\* heapq's _siftup: the smaller child moves up until a leaf is reached, then
\* the item is sifted down from there
RECURSIVE SiftUp(_, _, _)
SiftUp(h, startpos, pos) ==
    IF 2 * pos > Len(h) THEN SiftDown(h, startpos, pos)
    ELSE LET left == 2 * pos
             c == IF left + 1 <= Len(h) THEN TupleLess(h[left], h[left + 1]) ELSE "lt"
             childpos == IF c = "lt" THEN left ELSE left + 1
         IN  IF c = "TypeError" THEN [heap |-> h, err |-> TRUE]
             ELSE SiftUp(Swap(h, pos, childpos), startpos, childpos)

\* heapq.heappush, as PriorityQueue._put uses it (sync_queue.py:101): the item
\* is appended before it is sifted, so it stays in the list when the
\* comparison raises
HeapPush(h, x) == SiftDown(Append(h, x), 1, Len(h) + 1)

\* heapq.heappop, as PriorityQueue._get uses it (sync_queue.py:142), on a
\* non-empty list: the last item replaces the root and is sifted; when the
\* comparison raises the root is already gone
HeapPop(h) ==
    LET n == Len(h)
        rest == SubSeq(h, 1, n - 1)
    IN  IF n = 1 THEN [heap |-> <<>>, err |-> FALSE, item |-> h[1]]
        ELSE LET r == SiftUp([rest EXCEPT ![1] = h[n]], 1, 1)
             IN  [heap |-> r.heap, err |-> r.err, item |-> h[1]]

QInit ==
    /\ queues = <<>>
    /\ active_syncs = {}
    /\ operations = {}
    /\ operation_counter = 0
    /\ sem_value = max_concurrent
    /\ sem_waiters = <<>>
    /\ qpc = [t \in ExecTasks |-> "idle"]
    /\ qproj = [t \in ExecTasks |-> 0]
    /\ qop = [t \in ExecTasks |-> NoOp]
    /\ enq_raised = FALSE
    /\ last_done = NoOp

QueueOf(p) == IF p \in DOMAIN queues THEN queues[p] ELSE <<>>

\* SyncQueue.enqueue (sync_queue.py:84-109)
Enqueue(p, priority) ==
    /\ operation_counter < MaxOps
    /\ LET operation == [operation_id |-> operation_counter + 1,
                         project_id |-> p, priority |-> priority]
           r == HeapPush(QueueOf(p), operation)
       IN  /\ operation_counter' = operation_counter + 1
           /\ queues' = [q \in DOMAIN queues \cup {p} |->
                            IF q = p THEN r.heap ELSE queues[q]]
           /\ operations' = IF r.err THEN operations ELSE operations \cup {operation}
           /\ enq_raised' = r.err
    /\ UNCHANGED <<active_syncs, sem_value, sem_waiters, qpc, qproj, qop, last_done>>
    /\ UNCHANGED notQ

\* SyncQueue.cancel (sync_queue.py:221-239) of a tracked operation: the record
\* is dropped unless the project is active; the queue is not touched
Cancel(o) ==
    /\ o \in operations
    /\ o.project_id \notin active_syncs
    /\ operations' = operations \ {o}
    /\ UNCHANGED <<queues, active_syncs, operation_counter, sem_value, sem_waiters,
                   qpc, qproj, qop, enq_raised, last_done>>
    /\ UNCHANGED notQ

\* asyncio.Semaphore.locked(): no permit, or a waiter that was not cancelled
SemLockedMut == Len(sem_waiters) > 0
SemLocked == sem_value = 0 \/ Len(sem_waiters) > 0

\* asyncio.Semaphore._wake_up_next, applied to the pair (value, pcs): the first
\* waiter whose future is not done gets the permit
WakeUpNext(value, pcs) ==
    LET pending == {i \in 1..Len(sem_waiters) : pcs[sem_waiters[i]] = "wait_sem"}
    IN  IF value > 0 /\ pending # {}
        THEN LET i == CHOOSE k \in pending : \A j \in pending : k <= j
             IN  [value |-> value - 1,
                  pcs |-> [pcs EXCEPT ![sem_waiters[i]] = "granted"]]
        ELSE [value |-> value, pcs |-> pcs]

\* asyncio.Semaphore.release(), at the exit of "async with self.semaphore"
\* (sync_queue.py:140)
ReleaseMut(pcs) == [value |-> sem_value, pcs |-> pcs]
Release(pcs) == WakeUpNext(sem_value + 1, pcs)

\* whether execute_next marks the project active once it has its operation
\* (sync_queue.py:145)
MarksActiveMut(p) == active_syncs
MarksActive(p) == active_syncs \cup {p}

\* execute_next from "await self.queues[project_id].get()" on, for task t that
\* holds a permit (value is the semaphore's value then) and finds the queue not
\* empty (sync_queue.py:142-157, 179-181): either the operation is dequeued, the
\* project marked active and sync_func awaited, or the dequeue raises, the
\* permit is released and execute_next returns None
DequeueAndRun(t, p, value) ==
    LET r == HeapPop(queues[p])
    IN  /\ queues' = [queues EXCEPT ![p] = r.heap]
        /\ IF r.err
           THEN LET rel == WakeUpNext(value + 1, [qpc EXCEPT ![t] = "idle"])
                IN  /\ qpc' = rel.pcs
                    /\ sem_value' = rel.value
                    /\ qproj' = [qproj EXCEPT ![t] = 0]
                    /\ UNCHANGED <<active_syncs, qop>>
           ELSE /\ active_syncs' = MarksActive(p)
                /\ qop' = [qop EXCEPT ![t] = r.item]
                /\ qpc' = [qpc EXCEPT ![t] = "running"]
                /\ qproj' = [qproj EXCEPT ![t] = p]
                /\ sem_value' = value

\* execute_next is called (sync_queue.py:126-145): the three checks, then the
\* semaphore; with a free permit the call runs on to the await of sync_func
\* without a suspension point, otherwise it waits for a permit
ExecuteNext(t, p) ==
    /\ qpc[t] = "idle"
    /\ p \in DOMAIN queues
    /\ queues[p] # <<>>
    /\ p \notin active_syncs
    /\ IF ~SemLocked
       THEN /\ DequeueAndRun(t, p, sem_value - 1)
            /\ UNCHANGED sem_waiters
       ELSE /\ sem_waiters' = Append(sem_waiters, t)
            /\ qpc' = [qpc EXCEPT ![t] = "wait_sem"]
            /\ qproj' = [qproj EXCEPT ![t] = p]
            /\ UNCHANGED <<queues, active_syncs, sem_value, qop>>
    /\ UNCHANGED <<operations, operation_counter, enq_raised, last_done>>
    /\ UNCHANGED notQ

\* a waiter that was given a permit resumes in Semaphore.acquire and goes on
\* to "await self.queues[project_id].get()" (sync_queue.py:140-142): with the
\* queue empty it waits there, holding the permit; the checks of lines 127-136
\* are not made again
ExecResume(t) ==
    /\ qpc[t] = "granted"
    /\ sem_waiters' = SelectSeq(sem_waiters, LAMBDA u : u # t)
    /\ IF queues[qproj[t]] = <<>>
       THEN /\ qpc' = [qpc EXCEPT ![t] = "wait_get"]
            /\ UNCHANGED <<queues, active_syncs, sem_value, qop, qproj>>
       ELSE DequeueAndRun(t, qproj[t], sem_value)
    /\ UNCHANGED <<operations, operation_counter, enq_raised, last_done>>
    /\ UNCHANGED notQ

\* a task waiting in PriorityQueue.get() is woken by a put
ExecGetWake(t) ==
    /\ qpc[t] = "wait_get"
    /\ queues[qproj[t]] # <<>>
    /\ DequeueAndRun(t, qproj[t], sem_value)
    /\ UNCHANGED <<operations, operation_counter, sem_waiters, enq_raised, last_done>>
    /\ UNCHANGED notQ

\* sync_func is over: the finally block and the exit of the semaphore
\* (sync_queue.py:172-177, 140)
SyncOver(t) ==
    /\ qpc[t] = "running"
    /\ active_syncs' = active_syncs \ {qproj[t]}
    /\ operations' = {o \in operations : o.operation_id # qop[t].operation_id}
    /\ LET rel == Release([qpc EXCEPT ![t] = "idle"])
       IN  /\ qpc' = rel.pcs
           /\ sem_value' = rel.value
    /\ qop' = [qop EXCEPT ![t] = NoOp]
    /\ qproj' = [qproj EXCEPT ![t] = 0]
    /\ last_done' = qop[t]
    /\ UNCHANGED <<queues, operation_counter, sem_waiters, enq_raised>>
    /\ UNCHANGED notQ

\* sync_func returned its stats, which execute_next returns (sync_queue.py:154-164)
SyncReturn(t) == SyncOver(t)

\* sync_func raised: logged, raised again, caught at line 179, None returned
\* (sync_queue.py:166-170, 179-181)
SyncRaise(t) == SyncOver(t)

QNext ==
    \/ \E p \in Projects, priority \in {MANUAL, AUTO} : Enqueue(p, priority)
    \/ \E o \in operations : Cancel(o)
    \/ \E t \in ExecTasks : ExecuteNext(t, ProjectOf(t))
    \/ \E t \in ExecTasks : ExecResume(t)
    \/ \E t \in ExecTasks : ExecGetWake(t)
    \/ \E t \in ExecTasks : SyncReturn(t)
    \/ \E t \in ExecTasks : SyncRaise(t)

(***************************************************************************)
(*                     DebouncerService and SyncWorker                     *)
(*                                                                         *)
(* The tasks are the event loop of the worker (_process_events_loop, which *)
(* awaits add_event for one event at a time) and one timer task per        *)
(* project.  A step runs a task from one suspension point to the next.     *)
(***************************************************************************)
\* the projects whose directories the worker watches
Watched == 1..NWatched
Files == 1..NFiles
Timestamps == 1..MaxStamp
EventIds == 1..MaxEvents

NoSync == [project_id |-> 0, changed_files |-> {}]
NoFlush == [project_id |-> 0, events |-> {}, by |-> "none"]

\* the dict without its key k
Without(d, k) == [x \in DOMAIN d \ {k} |-> d[x]]

\* the dict with d[k] = v
With(d, k, v) == [x \in DOMAIN d \cup {k} |-> IF x = k THEN v ELSE d[x]]

\* list(events_dict.values())
Values(d) == {d[x] : x \in DOMAIN d}

WInit ==
    /\ running = FALSE
    /\ pending_events = [p \in Watched |-> <<>>]
    /\ timers = <<>>
    /\ events_sync = NoSync
    /\ timer_sync = [p \in Watched |-> NoSync]
    /\ event_counter = 0
    /\ latest = [p \in Watched |-> <<>>]
    /\ quiet = [p \in Watched |-> 0]
    /\ delivered = [e \in EventIds |-> 0]
    /\ removed = {}
    /\ last_flush = NoFlush
    /\ flush_all_todo = {}

\* SyncWorker.start: registers _handle_flushed_events as the flush callback and
\* creates the loops.
WorkerStart ==
    /\ ~running
    /\ running' = TRUE
    /\ UNCHANGED <<events_sync, timer_sync, dvars>>
    /\ UNCHANGED notW

\* SyncWorker._handle_flushed_events(project_id, events): the callback awaits
\* sync_service.sync_project(project_id, changed_files, trigger="auto") itself.
\* The value is the invocation in which the calling task is left suspended,
\* NoSync when the call ended (returned or raised) without suspending.
HandleFlushedEvents(p, events, suspends) ==
    IF events # {} /\ suspends
    THEN [project_id |-> p, changed_files |-> events]
    ELSE NoSync

\* _deduplicate_events: of the events of one file, the one with the greatest
\* timestamp, the earlier one of the list on a tie (the list is in the order
\* of the ids)
DeduplicateEvents(events) ==
    {e \in events :
        \A d \in events :
            (d.file_path = e.file_path /\ d # e) =>
                \/ d.timestamp < e.timestamp
                \/ d.timestamp = e.timestamp /\ e.id < d.id}

\* debouncer.py:85-86: the event is stored under its file path
StoreEvent(events_dict, event) == With(events_dict, event.file_path, event)

\* debouncer.py:97-98
BatchFullMut(batch_size) == batch_size > max_batch_size
BatchFull(batch_size) == batch_size >= max_batch_size

\* debouncer.py:93-109: the timer of the project after an add_event that does
\* not flush: the old task is cancelled, a new one sleeps debounce_seconds
RestartTimerMut(p) ==
    IF p \in DOMAIN timers THEN timers ELSE With(timers, p, debounce_seconds)
RestartTimer(p) == With(timers, p, debounce_seconds)

\* debouncer.py:159: what pending_events holds for the project after the flush
PopPendingMut(events_dict) == events_dict
PopPending(events_dict) == <<>>

\* _flush_project(p) for a project whose pending events are events_dict:
\* the mapping is popped, the timer cancelled and deleted, the callback
\* invoked with the deduplicated events (debouncer.py:144-188)
FlushProject(p, events_dict, by) ==
    LET events == DeduplicateEvents(Values(events_dict)) IN
    /\ pending_events' = [pending_events EXCEPT ![p] = PopPending(events_dict)]
    /\ timers' = Without(timers, p)
    /\ delivered' = [e \in EventIds |->
                        IF e \in {d.id : d \in events}
                        THEN delivered[e] + 1 ELSE delivered[e]]
    /\ removed' = removed \cup {d.id : d \in Values(events_dict)}
    /\ last_flush' = [project_id |-> p, events |-> events, by |-> by]
    /\ latest' = [latest EXCEPT ![p] = <<>>]
    /\ quiet' = [quiet EXCEPT ![p] = 0]

\* the files of a flush, the changed_files the callback passes on
FilePaths(events_dict) == DOMAIN events_dict

\* DebouncerService.add_event for an event of file f of project p stamped ts:
\* the event is stored, the timer of p cancelled, and p is flushed at once
\* (_flush_project, in the calling task) or given a new timer
\* (debouncer.py:63-114)
AddEventStep(p, f, ts) ==
    /\ event_counter < MaxEvents
    /\ event_counter' = event_counter + 1
    /\ LET event == [file_path |-> f, timestamp |-> ts, id |-> event_counter + 1]
           events_dict == StoreEvent(pending_events[p], event)
       IN
       IF BatchFull(Cardinality(DOMAIN events_dict))
       THEN FlushProject(p, events_dict, "add_event")
       ELSE /\ pending_events' = [pending_events EXCEPT ![p] = events_dict]
            /\ timers' = RestartTimer(p)
            /\ latest' = [latest EXCEPT ![p] =
                            With(@, f, IF f \in DOMAIN @ /\ @[f] > ts THEN @[f] ELSE ts)]
            /\ quiet' = [quiet EXCEPT ![p] = 0]
            /\ UNCHANGED <<delivered, removed, last_flush>>
    /\ UNCHANGED flush_all_todo

\* whether add_event(p, f, ...) flushes
AddEventFlushes(p, f) ==
    BatchFull(Cardinality(DOMAIN pending_events[p] \cup {f}))

\* _debounce_timer after its sleep: _flush_project (debouncer.py:116-130)
TimerStep(p) ==
    /\ p \in DOMAIN timers
    /\ timers[p] = 0
    /\ IF pending_events[p] = <<>>
       THEN /\ UNCHANGED <<pending_events, delivered, removed, last_flush, latest, quiet>>
            /\ timers' = timers
       ELSE FlushProject(p, pending_events[p], "timer")
    /\ UNCHANGED <<event_counter, flush_all_todo>>

\* One turn of _process_events_loop: an event of the watcher is taken from
\* event_queue and given to DebouncerService.add_event
\* (sync_worker.py:126-148).
ProcessEvent(p, f, ts, suspends) ==
    /\ running
    /\ events_sync = NoSync
    /\ AddEventStep(p, f, ts)
    /\ IF AddEventFlushes(p, f)
       THEN events_sync' =
                HandleFlushedEvents(p, DOMAIN pending_events[p] \cup {f}, suspends)
       ELSE ~suspends /\ UNCHANGED events_sync
    /\ UNCHANGED <<running, timer_sync>>
    /\ UNCHANGED notW

\* The sync awaited by _process_events_loop returns or raises an Exception;
\* _handle_flushed_events ends either way and the loop goes on.
EventsSyncDone ==
    /\ events_sync # NoSync
    /\ events_sync' = NoSync
    /\ UNCHANGED <<running, timer_sync, dvars>>
    /\ UNCHANGED notW

\* DebouncerService._debounce_timer after its sleep: _flush_project pops the
\* pending events of p, cancels timers[p], which is the task that is running
\* this very flush, deletes it, and awaits the callback.  The cancellation is
\* delivered at the first suspension of the callback.  (The sleep of a later
\* timer of p outlasts that delivery.)
TimerFire(p, suspends) ==
    /\ timer_sync[p] = NoSync
    /\ TimerStep(p)
    /\ timer_sync' = [timer_sync EXCEPT
                         ![p] = HandleFlushedEvents(p, FilePaths(pending_events[p]),
                                                    suspends)]
    /\ UNCHANGED <<running, events_sync>>
    /\ UNCHANGED notW

\* CancelledError reaches the timer task suspended in the sync: it is no
\* Exception, nothing on the way catches it before _debounce_timer does, and
\* the invocation is over.
TimerSyncAborted(p) ==
    /\ timer_sync[p] # NoSync
    /\ timer_sync' = [timer_sync EXCEPT ![p] = NoSync]
    /\ UNCHANGED <<running, events_sync, dvars>>
    /\ UNCHANGED notW

\* one second passes; a timer whose sleep is over runs first
DebounceTick ==
    /\ \A p \in DOMAIN timers : timers[p] > 0
    /\ timers # <<>>
    /\ timers' = [p \in DOMAIN timers |-> timers[p] - 1]
    /\ quiet' = [p \in Watched |->
                    IF pending_events[p] # <<>> /\ quiet[p] < debounce_seconds
                    THEN quiet[p] + 1 ELSE quiet[p]]
    /\ UNCHANGED <<pending_events, event_counter, latest, delivered, removed,
                   last_flush, flush_all_todo>>
    /\ UNCHANGED <<running, events_sync, timer_sync>>
    /\ UNCHANGED notW

WNext ==
    \/ WorkerStart
    \/ \E p \in Watched, f \in Files, ts \in Timestamps, suspends \in BOOLEAN :
            ProcessEvent(p, f, ts, suspends)
    \/ EventsSyncDone
    \/ \E p \in Watched, suspends \in BOOLEAN : TimerFire(p, suspends)
    \/ \E p \in Watched : TimerSyncAborted(p)
    \/ DebounceTick

(***************************************************************************)
(* The DebouncerService on its own: add_event, flush and flush_all are     *)
(* called by any task, the callback is any coroutine function.  What the   *)
(* callback does after it has been invoked does not touch the debouncer.   *)
(***************************************************************************)
AddEvent(p, f, ts) ==
    /\ AddEventStep(p, f, ts)
    /\ UNCHANGED <<running, events_sync, timer_sync>>
    /\ UNCHANGED notW

DebounceTimer(p) ==
    /\ TimerStep(p)
    /\ UNCHANGED <<running, events_sync, timer_sync>>
    /\ UNCHANGED notW

\* flush(project_id) (debouncer.py:132-142)
Flush(p) ==
    /\ pending_events[p] # <<>>
    /\ FlushProject(p, pending_events[p], "flush")
    /\ UNCHANGED <<event_counter, flush_all_todo>>
    /\ UNCHANGED <<running, events_sync, timer_sync>>
    /\ UNCHANGED notW

\* flush_all() takes the list of the projects with pending events
\* (debouncer.py:222-224)
FlushAllStart ==
    /\ flush_all_todo = {}
    /\ flush_all_todo' = {p \in Watched : pending_events[p] # <<>>}
    /\ flush_all_todo' # {}
    /\ UNCHANGED <<pending_events, timers, event_counter, latest, quiet, delivered,
                   removed, last_flush>>
    /\ UNCHANGED <<running, events_sync, timer_sync>>
    /\ UNCHANGED notW

\* flush_all() flushes the next project of its list, which returns at once
\* when the project has been flushed in between (debouncer.py:225-228, 155-156)
FlushAllNext(p) ==
    /\ p \in flush_all_todo
    /\ flush_all_todo' = flush_all_todo \ {p}
    /\ IF pending_events[p] = <<>>
       THEN UNCHANGED <<pending_events, timers, latest, quiet, delivered, removed,
                        last_flush>>
       ELSE FlushProject(p, pending_events[p], "flush_all")
    /\ UNCHANGED event_counter
    /\ UNCHANGED <<running, events_sync, timer_sync>>
    /\ UNCHANGED notW

DNext ==
    \/ \E p \in Watched, f \in Files, ts \in Timestamps : AddEvent(p, f, ts)
    \/ \E p \in Watched : DebounceTimer(p)
    \/ \E p \in Watched : Flush(p)
    \/ FlushAllStart
    \/ \E p \in Watched : FlushAllNext(p)
    \/ DebounceTick

(***************************************************************************)
(*                         IncrementalSyncService                          *)
(*                                                                         *)
(* The content of a file is the sequence of the texts of the chunks the    *)
(* Chunker cuts it into; <<>> is a file that cannot be decoded as UTF-8,   *)
(* for which _chunk_and_embed_file returns no chunk.  SHA-256 is taken to  *)
(* be free of collisions.  A sync is one step.                             *)
(***************************************************************************)
SourceFiles == 1..NSourceFiles

Texts == {"a", "b"}

Contents == UNION {[1..n -> Texts] : n \in 0..MaxChunks}

\* hash_utils.compute_file_hash, of the content now on disk
compute_file_hash(content) == content

\* hash_utils.compute_chunk_hash
compute_chunk_hash(text) == text

\* the rows of knowledge_chunks: metadata.chunk_hash and metadata.file_hash
\* (source_id and metadata.file_path are the key of the bag they are in)
Row(text, content) ==
    [chunk_hash |-> compute_chunk_hash(text),
     file_hash |-> compute_file_hash(content)]

NoStats ==
    [files_processed |-> 0, chunks_added |-> 0, chunks_modified |-> 0,
     chunks_deleted |-> 0]

SInit ==
    /\ disk = <<>>
    /\ knowledge_chunks = [f \in SourceFiles |-> EmptyBag]
    /\ stats = NoStats
    /\ synced = FALSE

RECURSIVE SumOver(_, _)
\* the sum of count[f] over the files f of the set S
SumOver(count, S) ==
    IF S = {} THEN 0
    ELSE LET f == CHOOSE g \in S : TRUE IN count[f] + SumOver(count, S \ {f})

\* _scan_directory: the walk finds the files that are on disk
ScanDirectory == DOMAIN disk

\* _get_chunks_for_file
ChunksForFile(f) == knowledge_chunks[f]

\* existing_chunks[0].metadata.file_hash (line 431): the select has no ORDER
\* BY, any row of the file can come first
OldHashes(f) == {r.file_hash : r \in BagToSet(ChunksForFile(f))}

\* _categorize_changes: the ways the paths can be sorted into the three lists
CategorizeChanges(file_paths) ==
    LET deleted == {f \in file_paths : f \notin DOMAIN disk}
        added == {f \in file_paths \ deleted : ChunksForFile(f) = EmptyBag}
        existing == (file_paths \ deleted) \ added
    IN {[added |-> added, modified |-> modified, deleted |-> deleted] :
          modified \in {m \in SUBSET existing :
                          \A f \in existing :
                              \E old_hash \in OldHashes(f) :
                                  f \in m <=> compute_file_hash(disk[f]) # old_hash}}

\* _chunk_and_embed_file: the chunk objects of the file now on disk, one for
\* each chunk whose embedding was made, all with the file_hash of that content;
\* a chunk without embedding is skipped (lines 539-542).
ChunkAndEmbedFile(f, embedded) ==
    LET content == disk[f]
        kept == {i \in 1..Len(content) : <<f, i>> \in embedded}
        rows == {Row(content[i], content) : i \in kept}
    IN [r \in rows |-> Cardinality({i \in kept : Row(content[i], content) = r})]

\* the dicts of _compute_chunk_diff: one chunk for each chunk_hash
ByHash(chunks) ==
    LET hashes == {r.chunk_hash : r \in BagToSet(chunks)}
    IN {m \in [hashes -> BagToSet(chunks)] : \A h \in hashes : m[h].chunk_hash = h}

\* _compute_chunk_diff: the chunks to delete (one id for each chunk_hash that
\* is gone) and the chunks to add (one for each chunk_hash that is new)
ComputeChunkDiff(old_chunks, new_chunks) ==
    {[to_delete |-> {old_by_hash[h] : h \in DOMAIN old_by_hash \ DOMAIN new_by_hash},
      to_add |-> {new_by_hash[h] : h \in DOMAIN new_by_hash \ DOMAIN old_by_hash}] :
        old_by_hash \in ByHash(old_chunks), new_by_hash \in ByHash(new_chunks)}

\* _process_modified_file
ProcessModifiedFile(f, embedded) ==
    ComputeChunkDiff(ChunksForFile(f), ChunkAndEmbedFile(f, embedded))

None == <<>>

\* sync_project_changes(project_id, changed_files) with the breaker Closed:
\* _sync_project_changes_internal.  changed_files is None or <<paths>>;
\* embedded holds the chunks (path, index) whose embedding succeeds this time.
SyncInternal(changed_files, embedded) ==
    LET file_paths == IF changed_files = None THEN ScanDirectory
                      ELSE changed_files[1]
    IN \E changes \in CategorizeChanges(file_paths) :
         LET added == changes.added
             modified == changes.modified
             deleted == changes.deleted
         IN
         /\ \E diff \in [modified ->
                    UNION {ProcessModifiedFile(f, embedded) : f \in modified}] :
              LET new(f) == ChunkAndEmbedFile(f, embedded)
                  inserted == {f \in added : new(f) # EmptyBag}
              IN
              /\ \A f \in modified : diff[f] \in ProcessModifiedFile(f, embedded)
              /\ knowledge_chunks' =
                    [f \in SourceFiles |->
                       IF f \in deleted THEN EmptyBag
                       ELSE IF f \in inserted THEN ChunksForFile(f) (+) new(f)
                       ELSE IF f \in modified
                            THEN (ChunksForFile(f) (-) SetToBag(diff[f].to_delete))
                                 (+) SetToBag(diff[f].to_add)
                       ELSE ChunksForFile(f)]
              /\ stats' =
                    [files_processed |-> Cardinality(inserted) + Cardinality(modified),
                     chunks_added |->
                        SumOver([f \in SourceFiles |-> BagCardinality(new(f))], inserted),
                     chunks_modified |->
                        SumOver([f \in SourceFiles |->
                                   IF f \in modified
                                   THEN Cardinality(diff[f].to_add) ELSE 0], modified),
                     chunks_deleted |->
                        SumOver([f \in SourceFiles |-> BagCardinality(ChunksForFile(f))],
                                deleted)
                        + SumOver([f \in SourceFiles |->
                                     IF f \in modified
                                     THEN Cardinality(diff[f].to_delete) ELSE 0],
                                  modified)]
         /\ synced' = (synced \/ changed_files = None)
         /\ UNCHANGED disk

SyncProjectChanges(changed_files, embedded) ==
    SyncInternal(changed_files, embedded) /\ UNCHANGED notS

\* a file is created or rewritten under local_path
WriteFile(f, content) ==
    /\ f \in DOMAIN disk => disk[f] # content
    /\ disk' = [g \in DOMAIN disk \cup {f} |-> IF g = f THEN content ELSE disk[g]]
    /\ stats' = NoStats
    /\ synced' = FALSE
    /\ UNCHANGED knowledge_chunks
    /\ UNCHANGED notS

\* a file is removed from local_path
DeleteFile(f) ==
    /\ f \in DOMAIN disk
    /\ disk' = [g \in DOMAIN disk \ {f} |-> disk[g]]
    /\ stats' = NoStats
    /\ synced' = FALSE
    /\ UNCHANGED knowledge_chunks
    /\ UNCHANGED notS

ChangedFilesArgs == {None} \cup {<<paths>> : paths \in SUBSET SourceFiles}

SNext ==
    \/ \E changed_files \in ChangedFilesArgs,
          embedded \in SUBSET (SourceFiles \X (1..MaxChunks)) :
            SyncProjectChanges(changed_files, embedded)
    \/ \E f \in SourceFiles, content \in Contents : WriteFile(f, content)
    \/ \E f \in SourceFiles : DeleteFile(f)

(***************************************************************************)
(*        IncrementalSyncService.sync_project_changes, with its breaker    *)
(*                                                                         *)
(* The callers of the breaker are jobs that sync one project; the guarded  *)
(* function is _sync_project_changes_internal.  The text of an exception   *)
(* is kept as its kind.                                                    *)
(***************************************************************************)
NoJob == [entered |-> FALSE, raised |-> "none", error_type |-> "none"]

PInit ==
    /\ project_row = [sync_status |-> "idle", last_sync_error |-> "none"]
    /\ jobs = [t \in Callers |-> NoJob]

\* update_project_sync_status (project_service_sync.py:123-158): the error
\* column is written when a message is given, cleared for status 'synced'
UpdateProjectSyncStatus(row, status, error_message) ==
    [sync_status |-> status,
     last_sync_error |-> IF error_message # "none" THEN error_message
                         ELSE IF status = "synced" THEN "none"
                         ELSE row.last_sync_error]

\* CircuitBreaker.call awaits the guarded function only when it has not
\* raised CircuitBreakerOpenError before (error_handler.py:150-177)
EntersInternalMut(rejected) == TRUE
EntersInternal(rejected) == ~rejected

\* the text of the CircuitBreakerOpenError a call made now would get
\* (error_handler.py:151-174)
RejectionMessage ==
    IF state = "open" /\ ~TimeoutElapsed THEN "cb_open" ELSE "cb_half_open"

\* sync_project_changes up to its first await: the breaker admits or rejects;
\* an admitted job sets the status 'syncing'
\* (incremental_sync_service.py:143-152, 192-200)
SyncCall(t) ==
    /\ BreakerCall(t)
    /\ LET rejected == cpc'[t] = "rejected"
       IN  /\ jobs' = [jobs EXCEPT ![t] =
                         [entered |-> EntersInternal(rejected),
                          raised |-> IF rejected THEN RejectionMessage ELSE "none",
                          error_type |-> "none"]]
           /\ project_row' =
                 IF EntersInternal(rejected)
                 THEN UpdateProjectSyncStatus(project_row, "syncing", "none")
                 ELSE project_row
    /\ UNCHANGED <<qvars, wvars, svars, rvars, evars, kvars, rcvars, dcvars, hvars, ppvars, chvars>>

\* the rejected job logs the circuit_breaker error, sets the status of the
\* project and re-raises (incremental_sync_service.py:154-175)
SyncRejected(t) ==
    /\ cpc[t] = "rejected"
    /\ cpc' = [cpc EXCEPT ![t] = "idle"]
    /\ jobs' = [jobs EXCEPT ![t].error_type = "circuit_breaker"]
    /\ project_row' = UpdateProjectSyncStatus(project_row, "error", jobs[t].raised)
    /\ UNCHANGED <<state, failure_count, last_failure_time, half_open_calls, now,
                   consec, admitted_in, trials>>
    /\ UNCHANGED <<qvars, wvars, svars, rvars, evars, kvars, rcvars, dcvars, hvars, ppvars, chvars>>

\* the internal sync returns its stats (incremental_sync_service.py:202-343)
InternalReturned(t, changed_files, embedded) ==
    /\ jobs[t].entered
    /\ on_success(t)
    /\ SyncInternal(changed_files, embedded)
    /\ project_row' = UpdateProjectSyncStatus(project_row, "completed", "none")
    /\ UNCHANGED jobs
    /\ UNCHANGED <<qvars, wvars, rvars, evars, kvars, rcvars, dcvars, hvars, ppvars, chvars>>

\* the internal sync returns after a per-file error was recorded: deleting the
\* chunks of the deleted file f raised, the error is appended to stats.errors
\* and the final status is 'error' (incremental_sync_service.py:241-248,
\* 327-343)
InternalReturnedWithErrors(t, f) ==
    /\ jobs[t].entered
    /\ f \notin DOMAIN disk
    /\ ChunksForFile(f) # EmptyBag
    /\ on_success(t)
    /\ project_row' = UpdateProjectSyncStatus(project_row, "error", "delete_error")
    /\ stats' = NoStats
    /\ UNCHANGED <<disk, knowledge_chunks, synced, jobs>>
    /\ UNCHANGED <<qvars, wvars, rvars, evars, kvars, rcvars, dcvars, hvars, ppvars, chvars>>

\* the internal sync raises, for instance when the project has no codebase
\* source (incremental_sync_service.py:202-209, 345-352)
InternalRaised(t) ==
    /\ jobs[t].entered
    /\ on_failure(t)
    /\ project_row' = UpdateProjectSyncStatus(project_row, "error", "sync_failed")
    /\ jobs' = [jobs EXCEPT ![t].raised = "sync_failed"]
    /\ UNCHANGED <<qvars, wvars, svars, rvars, evars, kvars, rcvars, dcvars, hvars, ppvars, chvars>>

\* the job is over, its caller may start another one
SyncJobDone(t) ==
    /\ cpc[t] \in {"returned", "raised", "cancelled"}
    /\ CallerDone(t)

\* the files the jobs find are cut into one chunk each
SmallContents == {content \in Contents : Len(content) = 1}

PNext ==
    \/ \E t \in Callers : SyncCall(t)
    \/ \E t \in Callers : SyncRejected(t)
    \/ \E t \in Callers, changed_files \in ChangedFilesArgs,
          embedded \in SUBSET (SourceFiles \X (1..MaxChunks)) :
            InternalReturned(t, changed_files, embedded)
    \/ \E t \in Callers, f \in SourceFiles : InternalReturnedWithErrors(t, f)
    \/ \E t \in Callers : InternalRaised(t)
    \/ \E t \in Callers : CallCancel(t)
    \/ \E t \in Callers : SyncJobDone(t)
    \/ Tick
    \/ \E f \in SourceFiles, content \in SmallContents : WriteFile(f, content)
    \/ \E f \in SourceFiles : DeleteFile(f)

(***************************************************************************)
(*                              RateLimiter                                *)
(*                                                                         *)
(* Time is in whole seconds.  A timestamp is kept as its age, now minus    *)
(* the timestamp; all the ages beyond time_window are alike.  A sleep      *)
(* lasts at least as long as asked.                                        *)
(***************************************************************************)
LimiterCallers == 1..NLimited
NotSleeping == -1

RInit ==
    /\ request_times = <<>>
    /\ lock_queue = <<>>
    /\ sleeping = NotSleeping
    /\ admitted_ages = <<>>
    /\ last_wait = NotSleeping

\* batch_embedder.py:64-66: the timestamps before the cutoff are dropped
DropExpired(times) == SelectSeq(times, LAMBDA age : ~(age > time_window))

\* batch_embedder.py:71-73, for the oldest timestamp of the deque
WaitSecondsMut(oldest) == 0
WaitSeconds(oldest) == time_window - oldest

\* batch_embedder.py:83 and the exit of "async with self._lock": the request
\* is recorded at the present time and the lock goes to the next waiter
Admit(times, waited) ==
    /\ request_times' = Append(times, 0)
    /\ admitted_ages' = Append(admitted_ages, 0)
    /\ lock_queue' = Tail(lock_queue)
    /\ sleeping' = NotSleeping
    /\ last_wait' = waited

\* acquire is called: the task takes its place at the lock
\* (batch_embedder.py:58-60)
LimiterCall(c) ==
    /\ \A i \in 1..Len(lock_queue) : lock_queue[i] # c
    /\ lock_queue' = Append(lock_queue, c)
    /\ UNCHANGED <<request_times, sleeping, admitted_ages, last_wait>>
    /\ UNCHANGED notR

\* the task has the lock: it drops the expired timestamps and either records
\* the request or goes to sleep until the oldest one expires
\* (batch_embedder.py:61-83)
LimiterRun(c) ==
    /\ lock_queue # <<>>
    /\ Head(lock_queue) = c
    /\ sleeping = NotSleeping
    /\ LET times == DropExpired(request_times) IN
       IF Len(times) >= rate_limit
       THEN IF WaitSeconds(times[1]) > 0
            THEN /\ request_times' = times
                 /\ sleeping' = WaitSeconds(times[1])
                 /\ last_wait' = WaitSeconds(times[1])
                 /\ UNCHANGED <<lock_queue, admitted_ages>>
            ELSE Admit(Tail(times), 0)
       ELSE Admit(times, 0)
    /\ UNCHANGED notR

\* the sleep is over: the oldest timestamp is dropped and the request
\* recorded (batch_embedder.py:77-83)
LimiterWake(c) ==
    /\ lock_queue # <<>>
    /\ Head(lock_queue) = c
    /\ sleeping = 0
    /\ Admit(Tail(request_times), last_wait)
    /\ UNCHANGED notR

\* a number one greater, up to the age at which timestamps are alike
Older(age) == IF age > time_window THEN age ELSE age + 1

\* one second passes
LimiterTick ==
    /\ request_times' = [i \in 1..Len(request_times) |-> Older(request_times[i])]
    /\ sleeping' = IF sleeping > 0 THEN sleeping - 1 ELSE sleeping
    /\ admitted_ages' =
          SelectSeq([i \in 1..Len(admitted_ages) |-> admitted_ages[i] + 1],
                    LAMBDA age : age < time_window)
    /\ UNCHANGED <<lock_queue, last_wait>>
    /\ UNCHANGED notR

RNext ==
    \/ \E c \in LimiterCallers : LimiterCall(c)
    \/ \E c \in LimiterCallers : LimiterRun(c)
    \/ \E c \in LimiterCallers : LimiterWake(c)
    \/ LimiterTick

(***************************************************************************)
(*                              BatchEmbedder                              *)
(*                                                                         *)
(* One call of embed_batch.  The provider answers a batch with a vector    *)
(* per text, in order, or raises; an error is the name of its type and the *)
(* keywords its message holds.  The admission by the RateLimiter is not    *)
(* repeated here.                                                          *)
(***************************************************************************)
\* the vector of a text
Vec(text) == <<text>>

\* error_handler.py:229-266: the categories in the order of the dict
Categories == <<"network", "permission", "parsing", "embedding", "database",
                "circuit_breaker">>

Keywords(category) ==
    CASE category = "network" ->
            {"connection", "timeout", "network", "unreachable", "refused"}
      [] category = "permission" ->
            {"permission", "access denied", "forbidden", "unauthorized"}
      [] category = "parsing" ->
            {"decode", "encoding", "utf-8", "unicode", "syntax", "invalid"}
      [] category = "embedding" ->
            {"embed", "cohere", "openai", "rate limit", "quota"}
      [] category = "database" ->
            {"database", "supabase", "postgres", "sql", "query", "constraint"}
      [] category = "circuit_breaker" -> {"circuit breaker"}

Types(category) ==
    CASE category = "network" ->
            {"ConnectionError", "TimeoutError", "HTTPError", "RequestException"}
      [] category = "permission" -> {"PermissionError", "OSError"}
      [] category = "parsing" -> {"UnicodeDecodeError", "UnicodeError", "SyntaxError"}
      [] category = "embedding" -> {"EmbeddingError", "APIError"}
      [] category = "database" ->
            {"DatabaseError", "IntegrityError", "OperationalError"}
      [] category = "circuit_breaker" -> {"CircuitBreakerOpenError"}

\* ErrorClassifier.classify (error_handler.py:268-292)
RECURSIVE ClassifyFrom(_, _)
ClassifyFrom(error, i) ==
    IF i > Len(Categories) THEN "unknown"
    ELSE IF error.type \in Types(Categories[i])
            \/ error.words \cap Keywords(Categories[i]) # {}
         THEN Categories[i]
         ELSE ClassifyFrom(error, i + 1)

classify(error) == ClassifyFrom(error, 1)

\* ErrorClassifier.is_retryable (error_handler.py:294-308)
is_retryable(category) == category \in {"network", "embedding", "database"}

\* BatchEmbedder._is_rate_limit_error (batch_embedder.py:264-285)
is_rate_limit_error(error) ==
    error.words \cap {"rate limit", "too many requests", "quota exceeded", "429",
                      "throttle", "slow down"} # {}

\* errors the provider raises
Errors ==
    {[type |-> "ConnectionError", words |-> {"connection", "refused"}],
     [type |-> "Exception", words |-> {"rate limit"}],
     [type |-> "Exception", words |-> {"429", "too many requests"}],
     [type |-> "ValueError", words |-> {"invalid"}],
     [type |-> "OperationalError", words |-> {}],
     [type |-> "Exception", words |-> {}]}

EInit ==
    /\ e_texts = <<>>
    /\ e_pos = 1
    /\ embeddings = <<>>
    /\ retries = 0
    /\ epc = "idle"
    /\ backoff = 0
    /\ failed_texts = {}

\* texts[i:i + self.batch_size], as the positions of its texts
BatchPositions ==
    {i \in 1..Len(e_texts) : e_pos <= i /\ i < e_pos + embed_batch_size}

\* embed_batch is called (batch_embedder.py:141-156)
EmbedBatch(texts) ==
    /\ epc \in {"idle", "done"}
    /\ e_texts' = texts
    /\ e_pos' = 1
    /\ embeddings' = <<>>
    /\ retries' = 0
    /\ epc' = IF texts = <<>> THEN "done" ELSE "attempt"
    /\ backoff' = 0
    /\ failed_texts' = {}
    /\ UNCHANGED notE

\* the loop of embed_batch goes to the next batch, or the list is returned
\* (batch_embedder.py:154-156, 178-182)
NextBatch ==
    /\ e_pos' = e_pos + embed_batch_size
    /\ retries' = 0
    /\ backoff' = 0
    /\ epc' = IF e_pos + embed_batch_size > Len(e_texts) THEN "done" ELSE "attempt"
    /\ UNCHANGED e_texts

\* the provider answers the batch (batch_embedder.py:209-214, 160-166)
AttemptReturns ==
    /\ epc = "attempt"
    /\ embeddings' = embeddings \o
          [k \in 1..Cardinality(BatchPositions) |-> Vec(e_texts[e_pos + k - 1])]
    /\ NextBatch
    /\ UNCHANGED failed_texts
    /\ UNCHANGED notE

\* batch_embedder.py:226-239: whether the error is waited out and the batch
\* tried again
RetriesError(error) == is_rate_limit_error(error)

\* the provider raises (batch_embedder.py:219-239, 168-175): the batch is
\* tried again after a sleep, or the error leaves _embed_batch_with_retry and
\* embed_batch falls back to the texts one by one
AttemptRaises(error) ==
    /\ epc = "attempt"
    /\ retries' = retries + 1
    /\ IF retries + 1 > max_retries
       THEN epc' = "fallback" /\ backoff' = 0
       ELSE IF RetriesError(error)
            THEN epc' = "backoff" /\ backoff' = 2 ^ (retries + 1)
            ELSE epc' = "fallback" /\ backoff' = 0
    /\ UNCHANGED <<e_texts, e_pos, embeddings, failed_texts>>
    /\ UNCHANGED notE

\* the sleep before the retry is over (batch_embedder.py:235, 206-209)
BackoffOver ==
    /\ epc = "backoff"
    /\ epc' = "attempt"
    /\ backoff' = 0
    /\ UNCHANGED <<e_texts, e_pos, embeddings, retries, failed_texts>>
    /\ UNCHANGED notE

\* _embed_individually for the texts at the positions from first on, fails
\* the positions whose embed() raises (batch_embedder.py:241-262)
EmbedIndividuallyMut(first, n, fails) ==
    LET ok == {k \in 1..n : first + k - 1 \notin fails}
        nth(j) == CHOOSE k \in ok : Cardinality({m \in ok : m < k}) = j - 1
    IN  [j \in 1..Cardinality(ok) |-> Vec(e_texts[first + nth(j) - 1])]
EmbedIndividually(first, n, fails) ==
    [k \in 1..n |-> IF first + k - 1 \in fails THEN None
                    ELSE Vec(e_texts[first + k - 1])]

\* the fallback of embed_batch for the batch in hand (batch_embedder.py:168-176)
Fallback(fails) ==
    /\ epc = "fallback"
    /\ embeddings' = embeddings \o
          EmbedIndividually(e_pos, Cardinality(BatchPositions), fails)
    /\ failed_texts' = failed_texts \cup fails
    /\ NextBatch
    /\ UNCHANGED notE

ENext ==
    \/ \E texts \in UNION {[1..n -> Texts] : n \in 0..MaxTexts} : EmbedBatch(texts)
    \/ AttemptReturns
    \/ \E error \in Errors : AttemptRaises(error)
    \/ BackoffOver
    \/ \E fails \in SUBSET BatchPositions : Fallback(fails)

(***************************************************************************)
(*                 The embeddings of the inserted chunks                   *)
(*                                                                         *)
(* The add path and the modify path of the engine, with the embedding each *)
(* chunk object carries.  A file is the sequence of the texts of its       *)
(* chunks; a row is keyed by its file, chunk_index and chunk_hash.         *)
(***************************************************************************)
NoCall == [path |-> "none", failed |-> {}, inserted |-> {}]

KInit ==
    /\ chunk_rows = {}
    /\ last_call = NoCall

\* what batch_embedder.embed_batch can return for the texts: a vector or None
\* for each text (batch_embedder.py:130-182)
EmbedBatchResults(texts) ==
    {[i \in 1..Len(texts) |-> IF i \in fails THEN None ELSE Vec(texts[i])] :
        fails \in SUBSET (1..Len(texts))}

\* what _embed_with_retry can do for a text: return the vector, return None
\* or raise when the retries are used up (incremental_sync_service.py:683-717)
EmbedWithRetryResults(text) ==
    {[raises |-> FALSE, embedding |-> Vec(text)],
     [raises |-> FALSE, embedding |-> None],
     [raises |-> TRUE, embedding |-> None]}

\* the ways the embedding of the chunks of a file can go: embed_batch returns,
\* or the batch path raises and each chunk goes through _embed_with_retry
EmbeddingOutcomes(code_chunks) ==
    {[batch_raised |-> FALSE, embeddings |-> e, individually |-> <<>>] :
        e \in EmbedBatchResults(code_chunks)}
    \cup
    {[batch_raised |-> TRUE, embeddings |-> <<>>, individually |-> o] :
        o \in {r \in [1..Len(code_chunks) ->
                        UNION {EmbedWithRetryResults(code_chunks[i]) :
                                 i \in 1..Len(code_chunks)}] :
                 \A i \in 1..Len(code_chunks) :
                     r[i] \in EmbedWithRetryResults(code_chunks[i])}}

\* the chunk object of chunk idx + 1 (lines 547-563, 643-659)
ChunkObject(f, code_chunks, idx, embedding) ==
    [file_path |-> f,
     content |-> code_chunks[idx + 1],
     embedding |-> embedding,
     chunk_hash |-> compute_chunk_hash(code_chunks[idx + 1]),
     file_hash |-> compute_file_hash(code_chunks),
     chunk_index |-> idx]

\* "if not embedding: continue" (lines 539-542, 636-638)
KeepsChunkMut(embedding) == TRUE
KeepsChunk(embedding) == embedding # None /\ embedding # <<>>

\* lines 536-565: the chunk objects built from what embed_batch returned
ChunkObjects(f, code_chunks, vectors) ==
    LET n == IF Len(vectors) < Len(code_chunks) THEN Len(vectors)
             ELSE Len(code_chunks)
    IN SelectSeq([i \in 1..n |-> ChunkObject(f, code_chunks, i - 1, vectors[i])],
                 LAMBDA object : KeepsChunk(object.embedding))

\* _chunk_and_embed_file_individually (lines 592-681): a chunk whose
\* _embed_with_retry raises is left out by the except clause
ChunkObjectsIndividually(f, code_chunks, results) ==
    SelectSeq([i \in 1..Len(code_chunks) |->
                 ChunkObject(f, code_chunks, i - 1,
                             IF results[i].raises THEN None
                             ELSE results[i].embedding)],
              LAMBDA object : \E i \in 1..Len(code_chunks) :
                                 /\ object.chunk_index = i - 1
                                 /\ ~results[i].raises
                                 /\ KeepsChunk(results[i].embedding))

\* _chunk_and_embed_file (lines 474-590)
ChunkAndEmbed(f, code_chunks, outcome) ==
    IF outcome.batch_raised
    THEN ChunkObjectsIndividually(f, code_chunks, outcome.individually)
    ELSE ChunkObjects(f, code_chunks, outcome.embeddings)

\* the chunk indexes whose embedding failed in the outcome
FailedIn(outcome) ==
    IF outcome.batch_raised
    THEN {i - 1 : i \in {j \in DOMAIN outcome.individually :
                           \/ outcome.individually[j].raises
                           \/ outcome.individually[j].embedding = None}}
    ELSE {i - 1 : i \in {j \in DOMAIN outcome.embeddings :
                           outcome.embeddings[j] = None}}

RowsOfFile(f) == {row \in chunk_rows : row.file_path = f}

Range(seq) == {seq[i] : i \in DOMAIN seq}

\* the add path (lines 250-266): a file without rows; its chunk objects are
\* inserted
AddPath(f, code_chunks, outcome) ==
    /\ RowsOfFile(f) = {}
    /\ LET chunks == Range(ChunkAndEmbed(f, code_chunks, outcome))
       IN /\ chunk_rows' = chunk_rows \cup chunks
          /\ last_call' = [path |-> "add", failed |-> FailedIn(outcome),
                           inserted |-> chunks]
    /\ UNCHANGED notK

\* new_by_hash of _compute_chunk_diff (lines 792-796): the last chunk object
\* of each chunk_hash
NewByHash(objects) ==
    {objects[i] : i \in {j \in DOMAIN objects :
                           \A k \in DOMAIN objects :
                               objects[k].chunk_hash = objects[j].chunk_hash => k <= j}}

\* the modify path (lines 288-305, 439-472, 768-826): a file whose rows carry
\* another file hash; the rows of the chunk hashes that are gone are deleted,
\* one for each hash, and the chunk objects of the new hashes are inserted
ModifyPath(f, code_chunks, outcome) ==
    /\ \E row \in RowsOfFile(f) : row.file_hash # compute_file_hash(code_chunks)
    /\ LET new_chunks == ChunkAndEmbed(f, code_chunks, outcome)
           old_hashes == {row.chunk_hash : row \in RowsOfFile(f)}
           new_hashes == {object.chunk_hash : object \in Range(new_chunks)}
           to_add == {object \in NewByHash(new_chunks) :
                         object.chunk_hash \notin old_hashes}
       IN \E to_delete \in SUBSET RowsOfFile(f) :
            /\ \A row \in to_delete : row.chunk_hash \notin new_hashes
            /\ \A h \in old_hashes \ new_hashes :
                  Cardinality({row \in to_delete : row.chunk_hash = h}) = 1
            /\ chunk_rows' = (chunk_rows \ to_delete) \cup to_add
            /\ last_call' = [path |-> "modify", failed |-> FailedIn(outcome),
                             inserted |-> to_add]
    /\ UNCHANGED notK

\* the delete path (lines 236-248): the rows of a file that is gone
DeletePath(f) ==
    /\ RowsOfFile(f) # {}
    /\ chunk_rows' = chunk_rows \ RowsOfFile(f)
    /\ last_call' = [path |-> "delete", failed |-> {}, inserted |-> {}]
    /\ UNCHANGED notK

KNext ==
    \/ \E f \in SourceFiles, code_chunks \in Contents :
         \E outcome \in EmbeddingOutcomes(code_chunks) :
            \/ AddPath(f, code_chunks, outcome)
            \/ ModifyPath(f, code_chunks, outcome)
    \/ \E f \in SourceFiles : DeletePath(f)

(***************************************************************************)
(*                             RecoveryService                             *)
(*                                                                         *)
(* The tables are taken to answer every request; the sync a resume starts  *)
(* may fail.                                                               *)
(***************************************************************************)
RecProjects == 1..NRecProjects
Paths == 1..NPaths
\* a row whose metadata has no file_path
NoPath == 0

RCInit ==
    /\ checkpoints = <<>>
    /\ store_chunks = {}
    /\ next_chunk_id = 1
    /\ on_disk = {}
    /\ local_paths = RecProjects
    /\ trail = <<>>

ChunkIds(p) == {row.id : row \in {r \in store_chunks : r.project_id = p}}

\* the sync engine stores a chunk of a file of the project
StoreChunk(p, path) ==
    /\ next_chunk_id <= MaxChunkId
    /\ store_chunks' = store_chunks \cup
          {[id |-> next_chunk_id, project_id |-> p, file_path |-> path]}
    /\ next_chunk_id' = next_chunk_id + 1
    /\ trail' = <<>>
    /\ UNCHANGED <<checkpoints, on_disk, local_paths>>
    /\ UNCHANGED notRC

\* a file is created or removed
DiskChange(path) ==
    /\ on_disk' = IF path \in on_disk THEN on_disk \ {path} ELSE on_disk \cup {path}
    /\ trail' = <<>>
    /\ UNCHANGED <<checkpoints, store_chunks, next_chunk_id, local_paths>>
    /\ UNCHANGED notRC

\* the local_path of a project is set or cleared
LocalPathChange(p) ==
    /\ local_paths' = IF p \in local_paths THEN local_paths \ {p}
                      ELSE local_paths \cup {p}
    /\ trail' = <<>>
    /\ UNCHANGED <<checkpoints, store_chunks, next_chunk_id, on_disk>>
    /\ UNCHANGED notRC

\* create_checkpoint (lines 69-117): one row with status active is inserted
CreateCheckpoint(p, files_remaining, chunks_created) ==
    /\ Len(checkpoints) < MaxCheckpoints
    /\ checkpoints' = Append(checkpoints,
          [project_id |-> p, files_remaining |-> files_remaining,
           chunks_created |-> chunks_created, status |-> "active"])
    /\ trail' = <<>>
    /\ UNCHANGED <<store_chunks, next_chunk_id, on_disk, local_paths>>
    /\ UNCHANGED notRC

\* update({'status': ...}).eq('id', checkpoint_id)
SetStatus(checkpoint_id, status) ==
    [checkpoints EXCEPT ![checkpoint_id].status = status]

\* the select of resume_from_checkpoint (lines 130-137): the active
\* checkpoints of the project
ActiveCheckpoints(p) ==
    {id \in DOMAIN checkpoints :
        checkpoints[id].project_id = p /\ checkpoints[id].status = "active"}

\* order('created_at', desc=True).limit(1)
MostRecent(ids) == CHOOSE id \in ids : \A other \in ids : other <= id

\* resume_from_checkpoint (lines 119-175); sync_returns tells whether
\* sync_project_changes returns or raises.  The sync removes the rows of the
\* remaining files that are gone from the disk.
ResumeFromCheckpoint(p, sync_returns) ==
    /\ ActiveCheckpoints(p) # {}
    /\ LET id == MostRecent(ActiveCheckpoints(p))
           files_remaining == checkpoints[id].files_remaining
       IN IF files_remaining = {}
          THEN /\ checkpoints' = SetStatus(id, "completed")
               /\ UNCHANGED store_chunks
          ELSE IF sync_returns
          THEN /\ checkpoints' = SetStatus(id, "completed")
               /\ store_chunks' =
                     {row \in store_chunks :
                         ~(/\ row.project_id = p
                           /\ row.file_path \in files_remaining
                           /\ row.file_path \notin on_disk)}
          ELSE UNCHANGED <<checkpoints, store_chunks>>
    /\ trail' = <<>>
    /\ UNCHANGED <<next_chunk_id, on_disk, local_paths>>
    /\ UNCHANGED notRC

\* rollback_sync (lines 322-374): the chunks of chunks_created are deleted and
\* the checkpoint is marked rolled_back
RollbackSync(p, checkpoint_id) ==
    /\ checkpoint_id \in DOMAIN checkpoints
    /\ store_chunks' =
          {row \in store_chunks :
              row.id \notin checkpoints[checkpoint_id].chunks_created}
    /\ checkpoints' = SetStatus(checkpoint_id, "rolled_back")
    /\ trail' = <<>>
    /\ UNCHANGED <<next_chunk_id, on_disk, local_paths>>
    /\ UNCHANGED notRC

\* _find_orphaned_chunks (lines 376-418): the ids of the chunks whose file
\* path is set and does not exist
FindOrphanedChunks(p) ==
    IF p \notin local_paths THEN {}
    ELSE {row.id : row \in {r \in store_chunks :
                               /\ r.project_id = p
                               /\ r.file_path # NoPath
                               /\ r.file_path \notin on_disk}}

\* the calls that followed one another without another change: an audit, an
\* audit and a cleanup, or an audit, a cleanup and an audit of one project
Audited(p) ==
    [op |-> "audit", project_id |-> p,
     orphaned_chunks |-> Cardinality(FindOrphanedChunks(p))]

\* verify_sync_integrity (lines 177-269): only selects
VerifySyncIntegrity(p) ==
    /\ trail' = IF Len(trail) = 2 /\ trail[1].project_id = p
                THEN Append(trail, Audited(p))
                ELSE <<Audited(p)>>
    /\ UNCHANGED <<checkpoints, store_chunks, next_chunk_id, on_disk, local_paths>>
    /\ UNCHANGED notRC

\* lines 301-309: the ids the batches of 100 delete
DeletedInBatchesMut(chunk_ids) == {}
DeletedInBatches(chunk_ids) == chunk_ids

\* cleanup_orphaned_chunks (lines 271-320)
CleanupOrphanedChunks(p) ==
    /\ store_chunks' =
          IF p \notin local_paths THEN store_chunks
          ELSE {row \in store_chunks :
                  row.id \notin DeletedInBatches(FindOrphanedChunks(p))}
    /\ trail' = IF Len(trail) = 1 /\ trail[1].project_id = p
                THEN Append(trail, [op |-> "cleanup", project_id |-> p,
                                    orphaned_chunks |-> 0])
                ELSE <<>>
    /\ UNCHANGED <<checkpoints, next_chunk_id, on_disk, local_paths>>
    /\ UNCHANGED notRC

RCNext ==
    \/ \E p \in RecProjects, path \in Paths \cup {NoPath} : StoreChunk(p, path)
    \/ \E path \in Paths : DiskChange(path)
    \/ \E p \in RecProjects, files_remaining \in SUBSET Paths :
         \E chunks_created \in SUBSET ChunkIds(p) :
            CreateCheckpoint(p, files_remaining, chunks_created)
    \/ \E p \in RecProjects, sync_returns \in BOOLEAN :
         ResumeFromCheckpoint(p, sync_returns)
    \/ \E p \in RecProjects, checkpoint_id \in 1..MaxCheckpoints :
         RollbackSync(p, checkpoint_id)

\* the audit and the cleanup, on the stores and disks the other steps make
AuditNext ==
    \/ \E p \in RecProjects, path \in Paths \cup {NoPath} : StoreChunk(p, path)
    \/ \E path \in Paths : DiskChange(path)
    \/ \E p \in RecProjects, files_remaining \in SUBSET Paths :
         \E chunks_created \in SUBSET ChunkIds(p) :
            CreateCheckpoint(p, files_remaining, chunks_created)
    \/ \E p \in RecProjects : LocalPathChange(p)
    \/ \E p \in RecProjects : VerifySyncIntegrity(p)
    \/ \E p \in RecProjects : CleanupOrphanedChunks(p)

(***************************************************************************)
(*                 SyncWorker._discover_auto_sync_projects                 *)
(***************************************************************************)
Discovered == 1..NDiscovered

NoPass == [started |-> {}, stopped |-> {}]

DCInit ==
    /\ project_modes = [p \in Discovered |-> "off"]
    /\ watched_projects = {}
    /\ observers = {}
    /\ last_pass = NoPass

\* a user changes auto_sync_enabled or sync_mode of a project
SetProjectMode(p, mode) ==
    /\ project_modes[p] # mode
    /\ project_modes' = [project_modes EXCEPT ![p] = mode]
    /\ UNCHANGED <<watched_projects, observers, last_pass>>
    /\ UNCHANGED notDC

\* the rows of the query eq("auto_sync_enabled", True) (lines 182-184)
AutoSyncProjects == {p \in Discovered : project_modes[p] # "off"}

\* lines 186-187: "if not response.data: return"
ReturnsEarly(data) == data = {}

\* _discover_auto_sync_projects (lines 178-215); startable holds the projects
\* whose local_path start_watching can watch
DiscoverAutoSyncProjects(startable) ==
    LET data == AutoSyncProjects
        to_start == {p \in data : project_modes[p] = "realtime"
                                   /\ p \notin watched_projects}
        started == {p \in to_start : p \in observers \/ p \in startable}
        removed_projects == (watched_projects \cup started) \ data
    IN IF ReturnsEarly(data)
       THEN /\ last_pass' = NoPass
            /\ UNCHANGED <<project_modes, watched_projects, observers>>
       ELSE /\ watched_projects' = (watched_projects \cup started) \ removed_projects
            /\ observers' = (observers \cup started) \ removed_projects
            /\ last_pass' = [started |-> started, stopped |-> removed_projects]
            /\ UNCHANGED project_modes

DiscoveryPass(startable) ==
    DiscoverAutoSyncProjects(startable) /\ UNCHANGED notDC

DCNext ==
    \/ \E p \in Discovered, mode \in {"off", "realtime", "periodic", "manual"} :
         SetProjectMode(p, mode)
    \/ \E startable \in SUBSET Discovered : DiscoveryPass(startable)

(***************************************************************************)
(*                              HealthMonitor                              *)
(*                                                                         *)
(* One step is one iteration of monitor_loop.  The heartbeat loop of a     *)
(* started worker records a heartbeat within the five seconds restart      *)
(* waits before it checks again, and heartbeat_timeout is longer than that.*)
(***************************************************************************)
NoHeartbeat == -1

NoCheck == [unhealthy |-> FALSE, restart_attempted |-> FALSE,
            restart_failed |-> FALSE, alerted |-> FALSE]

HInit ==
    /\ worker_running = FALSE
    /\ heartbeat_age = NoHeartbeat
    /\ hm_failure_count = 0
    /\ restart_count = 0
    /\ failed_restarts = 0
    /\ last_check = NoCheck

\* SyncWorker.start by the owner of the worker (sync_worker.py:68-90): the
\* heartbeat loop records a heartbeat when it starts
OwnerStartsWorker ==
    /\ ~worker_running
    /\ worker_running' = TRUE
    /\ heartbeat_age' = 0
    /\ UNCHANGED <<hm_failure_count, restart_count, failed_restarts, last_check>>
    /\ UNCHANGED notH

\* SyncWorker.stop by the owner of the worker (sync_worker.py:92-112)
OwnerStopsWorker ==
    /\ worker_running
    /\ worker_running' = FALSE
    /\ UNCHANGED <<heartbeat_age, hm_failure_count, restart_count,
                   failed_restarts, last_check>>
    /\ UNCHANGED notH

\* _heartbeat_loop records a heartbeat (sync_worker.py:166-176)
Heartbeat ==
    /\ worker_running
    /\ heartbeat_age # 0
    /\ heartbeat_age' = 0
    /\ UNCHANGED <<worker_running, hm_failure_count, restart_count,
                   failed_restarts, last_check>>
    /\ UNCHANGED notH

\* a second passes without a heartbeat
HeartbeatTick ==
    /\ heartbeat_age # NoHeartbeat
    /\ heartbeat_age <= heartbeat_timeout
    /\ heartbeat_age' = heartbeat_age + 1
    /\ UNCHANGED <<worker_running, hm_failure_count, restart_count,
                   failed_restarts, last_check>>
    /\ UNCHANGED notH

\* check_health (lines 102-137)
CheckHealth(is_running, age) ==
    /\ is_running
    /\ age # NoHeartbeat
    /\ ~(age > heartbeat_timeout)

\* lines 88-89: "if self.failure_count >= self.max_failures"
AlertDueMut(count) == count > max_failures
AlertDue(count) == count >= max_failures

\* one iteration of monitor_loop (lines 69-93) with restart_worker (lines
\* 139-177); cleanup_raises tells whether the clean-up of worker.stop raises
MonitorIteration(cleanup_raises) ==
    IF CheckHealth(worker_running, heartbeat_age)
    THEN /\ last_check' = NoCheck
         /\ UNCHANGED <<worker_running, heartbeat_age, hm_failure_count,
                        restart_count, failed_restarts>>
    ELSE LET stop_raises == worker_running /\ cleanup_raises
             \* worker.stop() and, when it returned, worker.start()
             running_then == ~stop_raises
             age_then == IF stop_raises THEN heartbeat_age ELSE 0
             restart_success == ~stop_raises /\ CheckHealth(running_then, age_then)
         IN /\ restart_success => restart_count < MaxRestarts
            /\ ~restart_success => hm_failure_count < MaxFailureCount
            /\ worker_running' = running_then
            /\ heartbeat_age' = age_then
            /\ restart_count' = IF restart_success THEN restart_count + 1
                                ELSE restart_count
            /\ hm_failure_count' = IF restart_success THEN 0
                                   ELSE hm_failure_count + 1
            /\ failed_restarts' = IF restart_success THEN 0
                                  ELSE failed_restarts + 1
            /\ last_check' =
                  [unhealthy |-> TRUE, restart_attempted |-> TRUE,
                   restart_failed |-> ~restart_success,
                   alerted |-> ~restart_success /\ AlertDue(hm_failure_count + 1)]

MonitorLoop(cleanup_raises) ==
    MonitorIteration(cleanup_raises) /\ UNCHANGED notH

HNext ==
    \/ OwnerStartsWorker
    \/ OwnerStopsWorker
    \/ Heartbeat
    \/ HeartbeatTick
    \/ \E cleanup_raises \in BOOLEAN : MonitorLoop(cleanup_raises)

(***************************************************************************)
(*                          ParallelFileProcessor                          *)
(*                                                                         *)
(* One call of process_files: a task for each position of file_paths, all  *)
(* under one semaphore, gathered in the order of the positions.            *)
(***************************************************************************)
InputFiles == 1..NInputFiles

NotReturned == [returned |-> FALSE, results |-> <<>>]

NoResult == [file_path |-> 0, success |-> FALSE, error |-> FALSE]

PPInit ==
    /\ pp_file_paths = <<>>
    /\ task_pc = <<>>
    /\ semaphore = max_workers
    /\ task_results = <<>>
    /\ progress = [processed_files |-> 0, failed_files |-> 0]
    /\ pp_returned = NotReturned
    /\ pp_raised = {}

\* process_files up to the gather (lines 131-162); no path, no task
ProcessFiles(file_paths) ==
    /\ \A i \in DOMAIN task_pc : task_pc[i] = "done"
    /\ pp_file_paths = <<>> \/ pp_returned.returned
    /\ pp_file_paths' = file_paths
    /\ task_pc' = [i \in DOMAIN file_paths |-> "created"]
    /\ semaphore' = max_workers
    /\ task_results' = [i \in DOMAIN file_paths |-> NoResult]
    /\ progress' = IF file_paths = <<>> THEN progress
                   ELSE [processed_files |-> 0, failed_files |-> 0]
    /\ pp_returned' = IF file_paths = <<>> THEN [returned |-> TRUE, results |-> <<>>]
                      ELSE NotReturned
    /\ pp_raised' = {}
    /\ UNCHANGED notPP

\* asyncio.Semaphore.acquire does not wait
SemaphoreFreeMut(value) == TRUE
SemaphoreFree(value) == value > 0

\* "async with semaphore" (line 151): the tasks come to the semaphore in the
\* order gather started them
TaskEnters(i) ==
    /\ task_pc[i] = "created"
    /\ \A j \in 1..(i - 1) : task_pc[j] # "created"
    /\ SemaphoreFree(semaphore)
    /\ semaphore' = semaphore - 1
    /\ task_pc' = [task_pc EXCEPT ![i] = "running"]
    /\ UNCHANGED <<pp_file_paths, task_results, progress, pp_returned, pp_raised>>
    /\ UNCHANGED notPP

\* the ProcessingResult of _process_single_file (lines 212-237)
Result(file_path, raises) ==
    [file_path |-> file_path, success |-> ~raises, error |-> raises]

\* _process_single_file returns (lines 179-237) and the semaphore is released
TaskFinishes(i, raises) ==
    /\ task_pc[i] = "running"
    /\ task_pc' = [task_pc EXCEPT ![i] = "done"]
    /\ task_results' = [task_results EXCEPT ![i] = Result(pp_file_paths[i], raises)]
    /\ progress' = [processed_files |-> progress.processed_files + 1,
                    failed_files |-> progress.failed_files + (IF raises THEN 1 ELSE 0)]
    /\ semaphore' = semaphore + 1
    /\ pp_raised' = IF raises THEN pp_raised \cup {i} ELSE pp_raised
    /\ UNCHANGED <<pp_file_paths, pp_returned>>
    /\ UNCHANGED notPP

\* gather is over and process_files returns its list (lines 161-176)
GatherReturns ==
    /\ pp_file_paths # <<>>
    /\ ~pp_returned.returned
    /\ \A i \in DOMAIN task_pc : task_pc[i] = "done"
    /\ pp_returned' = [returned |-> TRUE, results |-> task_results]
    /\ UNCHANGED <<pp_file_paths, task_pc, semaphore, task_results, progress, pp_raised>>
    /\ UNCHANGED notPP

PPNext ==
    \/ \E file_paths \in UNION {[1..n -> InputFiles] : n \in 0..MaxInputs} :
         ProcessFiles(file_paths)
    \/ \E i \in DOMAIN task_pc : TaskEnters(i)
    \/ \E i \in DOMAIN task_pc, raises \in BOOLEAN : TaskFinishes(i, raises)
    \/ GatherReturns

(***************************************************************************)
(*                                 Chunker                                 *)
(*                                                                         *)
(* A file is a sequence of characters: "\n", "d" and "x".  A line that     *)
(* starts with "d" stands for a line the pattern of the language matches   *)
(* (a class or function definition, a header); section_type and            *)
(* section_name are left out.                                              *)
(***************************************************************************)
Chars == {"\n", "d", "x"}

FileContents == UNION {[1..n -> Chars] : n \in 0..MaxChars}

Languages == {"python", "typescript", "markdown", "generic"}

NoChunkCall == [content |-> <<>>, language |-> "none", max_lines |-> 0,
                overlap_lines |-> 0]

CHInit ==
    /\ chunk_call = NoChunkCall
    /\ returned_chunks = <<>>

RECURSIVE SplitFrom(_, _, _)
\* content.split('\n'): the lines after position i, current holding the
\* characters of the line in hand
SplitFrom(content, i, current) ==
    IF i > Len(content) THEN <<current>>
    ELSE IF content[i] = "\n"
         THEN <<current>> \o SplitFrom(content, i + 1, <<>>)
         ELSE SplitFrom(content, i + 1, Append(current, content[i]))

Split(content) == SplitFrom(content, 1, <<>>)

RECURSIVE Join(_)
\* '\n'.join(lines)
Join(lines) ==
    IF lines = <<>> THEN <<>>
    ELSE IF Len(lines) = 1 THEN lines[1]
    ELSE lines[1] \o <<"\n">> \o Join(Tail(lines))

CodeChunk(chunk_lines, start_line, end_line) ==
    [content |-> Join(chunk_lines), start_line |-> start_line, end_line |-> end_line]

\* re.match of the definition patterns (lines 76-77, 154-157, 231)
IsDefinition(line) == Len(line) > 0 /\ line[1] = "d"

\* lines 117, 202: the first line of the chunk that starts with the overlap
StartAfterSplitMut(idx, overlap_lines) == idx + 1
StartAfterSplit(idx, overlap_lines) == idx - overlap_lines + 1

\* one turn of the loop over the lines (lines 74-117, 153-202, 229-261)
ChunkStep(st, idx, line, max_lines, overlap_lines) ==
    LET saved == IF IsDefinition(line) /\ st.current_chunk_lines # <<>>
                 THEN Append(st.chunks,
                             CodeChunk(st.current_chunk_lines,
                                       st.current_start_line, idx - 1))
                 ELSE st.chunks
        current == IF IsDefinition(line) THEN <<line>>
                   ELSE Append(st.current_chunk_lines, line)
        start == IF IsDefinition(line) THEN idx ELSE st.current_start_line
        overlap_start == IF Len(current) - overlap_lines > 0
                         THEN Len(current) - overlap_lines ELSE 0
    IN IF Len(current) >= max_lines
       THEN [chunks |-> Append(saved, CodeChunk(current, start, idx)),
             current_chunk_lines |-> SubSeq(current, overlap_start + 1, Len(current)),
             current_start_line |-> StartAfterSplit(idx, overlap_lines)]
       ELSE [chunks |-> saved, current_chunk_lines |-> current,
             current_start_line |-> start]

RECURSIVE ChunkLoop(_, _, _, _, _)
ChunkLoop(st, idx, lines, max_lines, overlap_lines) ==
    IF idx > Len(lines) THEN st
    ELSE ChunkLoop(ChunkStep(st, idx, lines[idx], max_lines, overlap_lines),
                   idx + 1, lines, max_lines, overlap_lines)

\* _chunk_python and _chunk_typescript (lines 61-134, 136-219)
ChunkBySections(content, max_lines, overlap_lines) ==
    LET lines == Split(content)
        st == ChunkLoop([chunks |-> <<>>, current_chunk_lines |-> <<>>,
                         current_start_line |-> 1],
                        1, lines, max_lines, overlap_lines)
    IN IF st.current_chunk_lines # <<>>
       THEN Append(st.chunks,
                   CodeChunk(st.current_chunk_lines, st.current_start_line,
                             Len(lines)))
       ELSE st.chunks

\* _chunk_markdown (lines 221-279): no overlap
ChunkMarkdown(content, max_lines) == ChunkBySections(content, max_lines, 0)

RECURSIVE GenericFrom(_, _, _, _)
\* the while loop of _chunk_generic (lines 294-307); idx as in the code
GenericFrom(lines, idx, max_lines, overlap_lines) ==
    IF ~(idx < Len(lines)) THEN <<>>
    ELSE LET last == IF idx + max_lines < Len(lines) THEN idx + max_lines
                     ELSE Len(lines)
             chunk_lines == SubSeq(lines, idx + 1, last)
             end_line == IF idx + Len(chunk_lines) < Len(lines)
                         THEN idx + Len(chunk_lines) ELSE Len(lines)
         IN <<CodeChunk(chunk_lines, idx + 1, end_line)>>
            \o GenericFrom(lines, idx + max_lines - overlap_lines,
                           max_lines, overlap_lines)

\* _chunk_generic (lines 281-307)
ChunkGeneric(content, max_lines, overlap_lines) ==
    GenericFrom(Split(content), 0, max_lines, overlap_lines)

\* chunk_file (lines 33-59)
chunk_file(content, language, max_lines, overlap_lines) ==
    IF language = "python" THEN ChunkBySections(content, max_lines, overlap_lines)
    ELSE IF language = "typescript"
         THEN ChunkBySections(content, max_lines, overlap_lines)
    ELSE IF language = "markdown" THEN ChunkMarkdown(content, max_lines)
    ELSE ChunkGeneric(content, max_lines, overlap_lines)

\* chunk_file is called with max_lines > overlap_lines >= 0
ChunkFile(content, language, max_lines, overlap_lines) ==
    /\ chunk_call = NoChunkCall
    /\ chunk_call' = [content |-> content, language |-> language,
                      max_lines |-> max_lines, overlap_lines |-> overlap_lines]
    /\ returned_chunks' = chunk_file(content, language, max_lines, overlap_lines)
    /\ UNCHANGED notCH

\* the caller is done with the chunks
ChunksUsed ==
    /\ chunk_call # NoChunkCall
    /\ chunk_call' = NoChunkCall
    /\ returned_chunks' = <<>>
    /\ UNCHANGED notCH

CHNext ==
    \/ \E content \in FileContents, language \in Languages :
         \E max_lines \in 1..MaxMaxLines :
            \E overlap_lines \in 0..(max_lines - 1) :
               ChunkFile(content, language, max_lines, overlap_lines)
    \/ ChunksUsed

(***************************************************************************)
(*              SyncWorker life cycle and the FileWatcher                  *)
(*                                                                         *)
(* SyncWorker.stop, SyncWorker.start, the discovery passes of the running  *)
(* worker and the restarts of the HealthMonitor, on watched_projects of    *)
(* the worker and the observers of the FileWatcher.                        *)
(***************************************************************************)
notLC == <<cbvars, qvars, wvars, svars, pvars, rvars, evars, kvars, rcvars, ppvars, chvars>>

\* FileWatcherService.cleanup (file_watcher.py:298-310): stop_watching for
\* every observer; stop_watching catches what it raises
FileWatcherCleanup == {}

\* SyncWorker.stop (sync_worker.py:92-112): running is cleared, the tasks are
\* cancelled, the FileWatcher and the debouncer are cleaned up;
\* watched_projects is not touched
WorkerStop ==
    /\ worker_running
    /\ worker_running' = FALSE
    /\ observers' = FileWatcherCleanup
    /\ UNCHANGED <<heartbeat_age, hm_failure_count, restart_count, failed_restarts,
                   last_check>>
    /\ UNCHANGED <<project_modes, watched_projects, last_pass>>
    /\ UNCHANGED notLC

\* one pass of _poll_projects_loop of the running worker (sync_worker.py:114-124)
PollProjects(startable) ==
    /\ worker_running
    /\ DiscoverAutoSyncProjects(startable)
    /\ UNCHANGED hvars
    /\ UNCHANGED notLC

\* the monitor finds the worker unhealthy and restarts it
\* (health_monitor.py:69-93, 142-177): worker.stop(), which cleans the
\* FileWatcher up when the worker was running, then worker.start()
RestartWorker ==
    /\ ~CheckHealth(worker_running, heartbeat_age)
    /\ MonitorIteration(FALSE)
    /\ observers' = IF worker_running THEN FileWatcherCleanup ELSE observers
    /\ UNCHANGED <<project_modes, watched_projects, last_pass>>
    /\ UNCHANGED notLC

LCNext ==
    \/ \E p \in Discovered, mode \in {"off", "realtime"} : SetProjectMode(p, mode)
    \/ \E startable \in SUBSET Discovered : PollProjects(startable)
    \/ OwnerStartsWorker
    \/ WorkerStop
    \/ RestartWorker
    \/ Heartbeat
    \/ HeartbeatTick

(***************************************************************************)
(*                           Specifications                                *)
(***************************************************************************)
Init == CBInit /\ QInit /\ WInit /\ SInit /\ PInit /\ RInit /\ EInit /\ KInit /\ RCInit /\ DCInit /\ HInit /\ PPInit /\ CHInit

SpecBreaker == Init /\ [][CBNext]_vars

SpecQueue == Init /\ [][QNext]_vars

SpecWorker == Init /\ [][WNext]_vars

SpecDebouncer == Init /\ [][DNext]_vars

\* the event loop runs a timer task whose sleep is over, and time passes
SpecDebouncerLive ==
    /\ SpecDebouncer
    /\ WF_vars(DebounceTick)
    /\ \A p \in Watched : WF_vars(DebounceTimer(p))

SpecSync == Init /\ [][SNext]_vars

SpecService == Init /\ [][PNext]_vars

SpecLimiter == Init /\ [][RNext]_vars

SpecEmbedder == Init /\ [][ENext]_vars

SpecChunkRows == Init /\ [][KNext]_vars

SpecRecovery == Init /\ [][RCNext]_vars

SpecAudit == Init /\ [][AuditNext]_vars

SpecDiscovery == Init /\ [][DCNext]_vars

SpecMonitor == Init /\ [][HNext]_vars

SpecParallel == Init /\ [][PPNext]_vars

SpecChunker == Init /\ [][CHNext]_vars

SpecLifecycle == Init /\ [][LCNext]_vars

\* the lock wakes its waiters in turn, the event loop runs a task that can
\* run, and time passes
SpecLimiterLive ==
    /\ SpecLimiter
    /\ WF_vars(LimiterTick)
    /\ \A c \in LimiterCallers : WF_vars(LimiterRun(c)) /\ WF_vars(LimiterWake(c))

(***************************************************************************)
(* Claims about the SyncQueue, checked under SpecQueue.                    *)
(***************************************************************************)
SyncsOf(p) == {t \in ExecTasks : qpc[t] = "running" /\ qproj[t] = p}

\* C1: at no moment are two sync_func invocations for the same project_id in
\* progress through execute_next.
C1_OneSyncPerProject ==
    \A p \in Projects : Cardinality(SyncsOf(p)) <= 1

\* the operation of the heap h that is first by priority and, among equal
\* priorities, by the order of enqueueing
FirstQueued(h) ==
    CHOOSE x \in {h[i] : i \in 1..Len(h)} :
        \A i \in 1..Len(h) :
            \/ x.priority < h[i].priority
            \/ x.priority = h[i].priority /\ x.operation_id <= h[i].operation_id

\* C16: enqueue with priority MANUAL or AUTO never fails, whatever is queued
\* already: it returns a fresh operation_id, and the operation is queued and
\* tracked.
C16_EnqueueNeverFails ==
    [][\A p \in Projects, priority \in {MANUAL, AUTO} :
         Enqueue(p, priority) =>
            /\ ~enq_raised'
            /\ \E o \in operations' :
                  /\ o.operation_id = operation_counter'
                  /\ o.operation_id \notin {x.operation_id : x \in operations}
                  /\ \E i \in 1..Len(queues'[p]) : queues'[p][i] = o]_vars

\* C17: whenever an execute_next takes an operation off the queue of a project,
\* it gets the queued operation that is first by priority (MANUAL before AUTO)
\* and, among equal priorities, by the order of enqueueing, and runs it.
C17_PriorityThenFifo ==
    [][\A p \in DOMAIN queues :
         Len(queues'[p]) < Len(queues[p]) =>
            \E t \in ExecTasks :
               /\ qpc[t] # "running"
               /\ qpc'[t] = "running"
               /\ qop'[t] = FirstQueued(queues[p])]_vars

\* C18: cancel of a tracked operation whose project is not active takes the
\* operation out of the queue of its project: the queue is one shorter and no
\* longer holds the operation.
C18_CancelRemovesFromQueue ==
    [][\A o \in operations :
         Cancel(o) =>
            /\ Len(queues'[o.project_id]) = Len(queues[o.project_id]) - 1
            /\ \A i \in 1..Len(queues'[o.project_id]) :
                  queues'[o.project_id][i] # o]_vars

\* the tasks that hold a permit of the semaphore
PermitHolders == {t \in ExecTasks : qpc[t] \in {"running", "wait_get", "granted"}}

\* C19: when the sync_func of an execute_next is over, returned or raised, the
\* project is not in active_syncs, the record of the operation is not tracked,
\* and the permit of the task is back in the semaphore or with the first
\* waiter.
C19_FinishCleansUp ==
    [][\A t \in ExecTasks :
         (SyncReturn(t) \/ SyncRaise(t)) =>
            /\ qproj[t] \notin active_syncs'
            /\ qop[t].operation_id \notin {o.operation_id : o \in operations'}
            /\ qpc'[t] = "idle"
            /\ \/ sem_value' = sem_value + 1 /\ qpc' = [qpc EXCEPT ![t] = "idle"]
               \/ /\ sem_value' = sem_value
                  /\ \E u \in ExecTasks \ {t} :
                        /\ qpc[u] = "wait_sem"
                        /\ qpc' = [qpc EXCEPT ![t] = "idle", ![u] = "granted"]]_vars

\* a sync is over and its permit went to a task that waited for the semaphore
C19_Witness ==
    /\ last_done # NoOp
    /\ last_done.project_id \notin active_syncs
    /\ last_done \notin operations
    /\ \E u \in ExecTasks : qpc[u] = "granted"
    /\ ~enq_raised

\* C20: at most max_concurrent sync_func invocations are in progress, over all
\* the projects.
C20_AtMostMaxConcurrent ==
    Cardinality({t \in ExecTasks : qpc[t] = "running"}) <= max_concurrent

\* max_concurrent syncs are running while a further execute_next waits for the
\* semaphore
C20_Witness ==
    /\ Cardinality({t \in ExecTasks : qpc[t] = "running"}) = max_concurrent
    /\ \E t \in ExecTasks : qpc[t] = "wait_sem"

(***************************************************************************)
(* Claims about the IncrementalSyncService, checked under SpecSync.        *)
(***************************************************************************)
\* a sync of the project: full scan, or with a list of changed files
ScanSync ==
    \E embedded \in SUBSET (SourceFiles \X (1..MaxChunks)) :
        SyncProjectChanges(None, embedded)

ListSync(paths) ==
    \E embedded \in SUBSET (SourceFiles \X (1..MaxChunks)) :
        SyncProjectChanges(<<paths>>, embedded)

\* C3: whatever syncs made the store, a sync_project(p) that follows another
\* sync_project(p) with no change on disk in between leaves the stored chunks
\* as they are and reports chunks_added = chunks_modified = chunks_deleted = 0.
C3_UnchangedSyncIsIdempotent ==
    [][ (synced /\ ScanSync) =>
          /\ knowledge_chunks' = knowledge_chunks
          /\ stats'.chunks_added = 0
          /\ stats'.chunks_modified = 0
          /\ stats'.chunks_deleted = 0
      ]_vars

\* C4: after any sync no two stored chunks of one file have the same
\* chunk_hash, also when the Chunker cut the file into two chunks of the same
\* text.
C4_ChunkHashUniquePerFile ==
    \A f \in SourceFiles :
        \A r1, r2 \in BagToSet(knowledge_chunks[f]) :
            /\ CopiesIn(r1, knowledge_chunks[f]) = 1
            /\ r1.chunk_hash = r2.chunk_hash => r1 = r2

\* C5: all stored chunks of one file carry the same file_hash, also after a
\* sync of a modified file that kept the chunks whose chunk_hash had not
\* changed.
C5_OneFileHashPerFile ==
    \A f \in SourceFiles :
        \A r1, r2 \in BagToSet(knowledge_chunks[f]) : r1.file_hash = r2.file_hash

\* C6: when a file with stored chunks is no longer on disk, the next sync of
\* the project, by full scan or with a list that names the file, removes all
\* chunks of the file.
C6_DeletedFileLosesItsChunks ==
    [][ \A f \in SourceFiles :
          (/\ f \notin DOMAIN disk
           /\ knowledge_chunks[f] # EmptyBag
           /\ ScanSync \/ \E paths \in SUBSET SourceFiles :
                              f \in paths /\ ListSync(paths))
          => knowledge_chunks'[f] = EmptyBag
      ]_vars

(***************************************************************************)
(* Claims about the SyncWorker, checked under SpecWorker.                  *)
(***************************************************************************)
FlushSyncsInProgress(p) ==
    (IF events_sync.project_id = p THEN 1 ELSE 0)
    + (IF timer_sync[p] # NoSync THEN 1 ELSE 0)

\* C2: while the Worker is running a flushed batch is not run inline, so no two
\* sync invocations for the same project overlap, also when a further flush of
\* the project fires while the sync started for an earlier flush is still in
\* progress.
C2_FlushesDoNotOverlap ==
    running => \A p \in Watched : FlushSyncsInProgress(p) <= 1

(***************************************************************************)
(* Claims about the CircuitBreaker, checked under SpecBreaker.             *)
(***************************************************************************)
Running == {t \in Callers : cpc[t] = "running"}

\* C7: starting from Closed, the failure that makes failure_threshold
\* consecutive failed calls (no success in between) opens the breaker and stamps
\* last_failure_time, and fewer consecutive failures leave it Closed; a success
\* in Closed resets failure_count to 0; while the breaker is Open and at most
\* timeout seconds have passed since the stamp, a call attempt is rejected and
\* the guarded function is not invoked.
C7_OpensAtThreshold ==
    [][ \A t \in Callers :
          /\ (state = "closed" /\ cpc[t] = "running" /\ cpc'[t] = "raised") =>
                /\ (consec' >= failure_threshold) =>
                       (state' = "open" /\ last_failure_time' = now)
                /\ (consec' < failure_threshold) => state' = "closed"
          /\ (state = "closed" /\ cpc[t] = "running" /\ cpc'[t] = "returned") =>
                (failure_count' = 0 /\ state' = "closed")
          /\ (/\ state = "open" /\ last_failure_time # NoTime
              /\ now - last_failure_time <= timeout
              /\ cpc[t] = "idle" /\ cpc'[t] # "idle") =>
                (cpc'[t] = "rejected" /\ state' = "open")
      ]_vars

\* the breaker was opened by failure_threshold consecutive failures and has
\* rejected a call within the timeout
C7_Witness ==
    /\ state = "open"
    /\ consec = failure_threshold
    /\ last_failure_time # NoTime
    /\ now - last_failure_time <= timeout
    /\ \E t \in Callers : cpc[t] = "rejected"

\* C8: a call attempted while the breaker is Open is rejected, with state,
\* failure_count and last_failure_time unchanged and the guarded function not
\* invoked, unless more than timeout seconds have passed since
\* last_failure_time; then the breaker becomes Half-Open, the half-open counter
\* restarts (and counts this call) and the call is admitted.
C8_OpenAttempt ==
    [][ \A t \in Callers :
          (state = "open" /\ cpc[t] = "idle" /\ cpc'[t] # "idle") =>
              IF last_failure_time # NoTime /\ now - last_failure_time > timeout
              THEN /\ state' = "half_open"
                   /\ half_open_calls' = 1
                   /\ cpc'[t] = "running"
              ELSE /\ cpc'[t] = "rejected"
                   /\ state' = state
                   /\ failure_count' = failure_count
                   /\ last_failure_time' = last_failure_time
      ]_vars

\* a second Half-Open period: its trial was admitted although the counter of
\* the first period had reached half_open_max_calls
C8_Witness ==
    /\ state = "half_open"
    /\ half_open_calls = 1
    /\ now - last_failure_time > timeout
    /\ failure_count > failure_threshold
    /\ \E t \in Callers : cpc[t] = "running" /\ admitted_in[t] = "half_open"

\* C9: the outcome of the call admitted in Half-Open decides the next state:
\* success makes the breaker Closed with failure_count = 0, failure makes it
\* Open with last_failure_time restamped.
C9_TrialDecides ==
    [][ \A t \in Callers :
          (admitted_in[t] = "half_open" /\ cpc[t] = "running") =>
              /\ (cpc'[t] = "returned") => (state' = "closed" /\ failure_count' = 0)
              /\ (cpc'[t] = "raised") => (state' = "open" /\ last_failure_time' = now)
      ]_vars

C11_RejectedJobOnlySetsError ==
    [][\A t \in Callers :
         /\ (SyncCall(t) /\ cpc'[t] = "rejected") =>
               /\ ~jobs'[t].entered
               /\ jobs'[t].raised \in {"cb_open", "cb_half_open"}
               /\ knowledge_chunks' = knowledge_chunks
         /\ SyncRejected(t) =>
               /\ ~jobs[t].entered
               /\ jobs'[t].error_type = "circuit_breaker"
               /\ knowledge_chunks' = knowledge_chunks
               /\ project_row'.sync_status = "error"
               /\ project_row'.last_sync_error = jobs[t].raised
               /\ jobs[t].raised \in {"cb_open", "cb_half_open"}]_vars

\* a job was rejected while the trial of the Half-Open breaker was running,
\* with chunks in the store and a change on disk waiting to be synced
C11_Witness ==
    \E t \in Callers :
        /\ cpc[t] = "idle"
        /\ jobs[t].error_type = "circuit_breaker"
        /\ jobs[t].raised = "cb_half_open"
        /\ project_row = [sync_status |-> "error", last_sync_error |-> "cb_half_open"]
        /\ \E f \in SourceFiles :
              /\ knowledge_chunks[f] # EmptyBag
              /\ f \in DOMAIN disk
              /\ compute_file_hash(disk[f]) \notin OldHashes(f)

(***************************************************************************)
(* Claims about the DebouncerService, checked under SpecDebouncer.         *)
(***************************************************************************)
\* C12: whatever the order in which the timestamps of the events of one file
\* of one project arrive, the next flush of the project holds exactly one event
\* for that file, the one with the greatest timestamp.
C12_FlushKeepsGreatestTimestamp ==
    [][\A p \in Watched :
         ((Flush(p) \/ DebounceTimer(p) \/ FlushAllNext(p))
            /\ pending_events[p] # <<>>) =>
               \A f \in DOMAIN latest[p] :
                  /\ Cardinality({e \in last_flush'.events : e.file_path = f}) = 1
                  /\ \A e \in last_flush'.events :
                        e.file_path = f => e.timestamp = latest[p][f]]_vars

\* C13: while the events of a project come less than debounce_seconds apart
\* and its batch is not full, no timer flushes it; the one timer that is left
\* flushes it debounce_seconds after the last event, and does flush it.  Every
\* add_event replaces the timer, and no timer outlives the pending events.
C13_OneFlushAfterQuietPeriod ==
    /\ [](\A p \in Watched :
            IF pending_events[p] # <<>>
            THEN p \in DOMAIN timers /\ timers[p] + quiet[p] = debounce_seconds
            ELSE p \notin DOMAIN timers)
    /\ [][\A p \in Watched :
            (DebounceTimer(p) /\ pending_events[p] # <<>>) =>
               /\ quiet[p] = debounce_seconds
               /\ last_flush' = [project_id |-> p,
                                 events |-> Values(pending_events[p]),
                                 by |-> "timer"]
               /\ p \notin DOMAIN timers']_vars
    /\ \A p \in Watched :
            (pending_events[p] # <<>>) ~> (pending_events[p] = <<>>)

\* a burst of two events of one file was flushed by the timer, which handed
\* over the second event only
C13_Witness ==
    /\ last_flush.by = "timer"
    /\ \E e \in last_flush.events : e.id = 2
    /\ event_counter = 2
    /\ removed = {2}

\* C14: add_event flushes at once when the project reaches max_batch_size
\* pending files: between the steps of the tasks every project has fewer than
\* max_batch_size pending events, and no callback invocation is given more
\* than max_batch_size events.
C14_BatchNeverExceedsMax ==
    /\ \A p \in Watched : Cardinality(DOMAIN pending_events[p]) < max_batch_size
    /\ Cardinality(last_flush.events) <= max_batch_size

\* an add_event has flushed a full batch instead of starting a timer
C14_Witness ==
    /\ last_flush.by = "add_event"
    /\ Cardinality(last_flush.events) = max_batch_size
    /\ last_flush.project_id \notin DOMAIN timers

\* C15: under every interleaving of add_event, the timers, flush and flush_all
\* an event that a flush takes out of pending_events is given to the callback
\* in that flush and in no other one: no event is given to the callback twice,
\* none leaves pending_events in a flush without being given to it, and a
\* flushed event is no longer pending.
C15_EachEventFlushedOnce ==
    \A e \in EventIds :
        /\ delivered[e] <= 1
        /\ e \in removed <=> delivered[e] = 1
        /\ e \in removed =>
              \A p \in Watched : e \notin {d.id : d \in Values(pending_events[p])}

\* a flush_all has flushed one project and has more to go; every event
\* was taken out of pending_events by a flush and given to the callback once
C15_Witness ==
    /\ event_counter = MaxEvents
    /\ removed = EventIds
    /\ \A e \in EventIds : delivered[e] = 1
    /\ last_flush.by = "flush_all"
    /\ flush_all_todo # {}

(***************************************************************************)
(* Claims about the RateLimiter, checked under SpecLimiterLive.            *)
(***************************************************************************)
\* C21: whatever the number of concurrent callers of acquire and their
\* arrival times, the calls admitted in any time_window seconds are at most
\* rate_limit, and every call of acquire is admitted in the end.
C21_RateBoundedAndAdmitted ==
    /\ [](Len(admitted_ages) <= rate_limit)
    /\ \A c \in LimiterCallers :
          (\E i \in 1..Len(lock_queue) : lock_queue[i] = c)
             ~> (\A i \in 1..Len(lock_queue) : lock_queue[i] # c)

\* a call that found rate_limit requests of this very second slept for the
\* whole window and was admitted, with other callers waiting at the lock
C21_Witness ==
    /\ last_wait = time_window
    /\ sleeping = NotSleeping
    /\ Len(admitted_ages) >= 1
    /\ admitted_ages[Len(admitted_ages)] = 0
    /\ Len(lock_queue) >= 1

(***************************************************************************)
(* Claims about the BatchEmbedder, checked under SpecEmbedder.             *)
(***************************************************************************)
\* C22: the list embed_batch returns is as long as its input and holds at
\* position i the vector of text i, or null exactly when the batch of text i
\* fell back to the texts one by one and the embedding of text i failed;
\* the positions of the other batches hold their vectors.
C22_OneResultPerText ==
    /\ Len(embeddings) =
          (IF epc = "done" THEN Len(e_texts)
           ELSE IF e_pos - 1 < Len(e_texts) THEN e_pos - 1 ELSE Len(e_texts))
    /\ \A i \in 1..Len(embeddings) :
          embeddings[i] = IF i \in failed_texts THEN None ELSE Vec(e_texts[i])

\* a call has returned three results, the first batch by the fallback with
\* one failure, the second batch from the provider
C22_Witness ==
    /\ epc = "done"
    /\ Len(e_texts) = MaxTexts
    /\ failed_texts = {2}
    /\ embeddings = <<Vec(e_texts[1]), None, Vec(e_texts[3])>>

\* C23: a failed batch call is tried again exactly when the category its error
\* is classified into is retryable and fewer than max_retries retries were
\* made, after a wait of 2^n seconds before the n-th retry; any other failure
\* leaves _embed_batch_with_retry at once.
C23_RetryIffRetryable ==
    [][\A error \in Errors :
         AttemptRaises(error) =>
            /\ (epc' = "backoff") <=>
                  (retries + 1 <= max_retries /\ is_retryable(classify(error)))
            /\ epc' = "backoff" => backoff' = 2 ^ (retries + 1)]_vars

(***************************************************************************)
(* Claims about the embeddings of the rows, checked under SpecChunkRows.   *)
(***************************************************************************)
\* C24: every row of knowledge_chunks carries an embedding that is not null,
\* and on the add path and on the modify path no chunk whose embedding failed
\* (a null vector from embed_batch, or a failure of the per-chunk fallback) is
\* among the rows inserted.
C24_InsertedChunksHaveEmbedding ==
    /\ \A row \in chunk_rows : row.embedding # None
    /\ \A row \in last_call.inserted :
          row.embedding # None /\ row.chunk_index \notin last_call.failed

\* a modified file of two chunks had the embedding of its first chunk fail and
\* its second chunk inserted
C24_Witness ==
    /\ last_call.path = "modify"
    /\ last_call.failed = {0}
    /\ \E row \in last_call.inserted : row.chunk_index = 1

(***************************************************************************)
(* Claims about the RecoveryService: C25 is checked under SpecRecovery,    *)
(* C26 under SpecAudit.                                                    *)
(***************************************************************************)
\* C25: after any sequence of create_checkpoint, resume_from_checkpoint and
\* rollback_sync calls no project has more than one checkpoint with status
\* active.
C25_OneActiveCheckpoint ==
    \A p \in RecProjects : Cardinality(ActiveCheckpoints(p)) <= 1

\* C26: an integrity audit, then cleanup_orphaned_chunks, then an integrity
\* audit of the same project, with no change of the disk or of the store in
\* between, reports orphaned_chunks = 0 in the second audit; and an audit
\* changes neither the chunks nor the checkpoints.
C26_CleanupLeavesNoOrphans ==
    /\ [](Len(trail) = 3 /\ trail[1].op = "audit" /\ trail[2].op = "cleanup"
             /\ trail[3].op = "audit"
             /\ trail[1].project_id = trail[2].project_id
             /\ trail[2].project_id = trail[3].project_id
           => trail[3].orphaned_chunks = 0)
    /\ [][\A p \in RecProjects :
            VerifySyncIntegrity(p) => UNCHANGED <<store_chunks, checkpoints>>]_vars

\* an audit found orphaned chunks, the cleanup removed them, and the second
\* audit of the project has run
C26_Witness ==
    /\ Len(trail) = 3
    /\ trail[1].op = "audit" /\ trail[1].orphaned_chunks >= 1
    /\ trail[2].op = "cleanup" /\ trail[2].project_id = trail[1].project_id
    /\ trail[3].op = "audit" /\ trail[3].project_id = trail[1].project_id

(***************************************************************************)
(* Claims about the discovery pass, checked under SpecDiscovery.           *)
(***************************************************************************)
\* C27: after each discovery pass, whatever the auto-sync query returned (the
\* empty result included), every realtime auto-sync project whose watcher can
\* be started is watched, no project is watched unless it is still auto-sync,
\* and each project that was watched and is no longer auto-sync was passed to
\* stop_watching and removed from the watched set.
C27_WatchedFollowsAutoSync ==
    [][\A startable \in SUBSET Discovered :
         DiscoveryPass(startable) =>
            /\ \A p \in AutoSyncProjects :
                  project_modes[p] = "realtime" /\ p \in startable
                     => p \in watched_projects'
            /\ watched_projects' \subseteq AutoSyncProjects
            /\ \A p \in watched_projects \ AutoSyncProjects :
                  p \in last_pass'.stopped /\ p \notin watched_projects']_vars

(***************************************************************************)
(* Claims about the HealthMonitor, checked under SpecMonitor.              *)
(***************************************************************************)
\* C28: at every check that finds the worker not running or its last
\* heartbeat older than heartbeat_timeout a restart is attempted;
\* failure_count is the number of failed restart attempts since the last
\* successful one; and the alert is raised exactly when a restart attempt
\* fails and failure_count has then reached max_failures.
C28_RestartCountAlert ==
    /\ [](hm_failure_count = failed_restarts)
    /\ [](last_check.alerted <=>
             last_check.restart_failed /\ failed_restarts >= max_failures)
    /\ [][\A cleanup_raises \in BOOLEAN :
            MonitorLoop(cleanup_raises)
            /\ (~worker_running \/ heartbeat_age > heartbeat_timeout)
               => last_check'.restart_attempted]_vars

\* the restart of a running worker with a stale heartbeat has failed for the
\* second time in a row and the alert was raised
C28_Witness ==
    /\ last_check.restart_failed
    /\ last_check.alerted
    /\ hm_failure_count = max_failures
    /\ heartbeat_age > heartbeat_timeout

RECURSIVE FreshLines(_, _, _)
\* the lines of the chunks from chunk i on that no chunk before them covers,
\* covered being the last line covered so far
FreshLines(chunks, i, covered) ==
    IF i > Len(chunks) THEN <<>>
    ELSE LET chunk == chunks[i]
             chunk_lines == Split(chunk.content)
             skip == IF covered + 1 > chunk.start_line
                     THEN covered + 1 - chunk.start_line ELSE 0
             upto == IF chunk.end_line > covered THEN chunk.end_line ELSE covered
         IN SubSeq(chunk_lines, skip + 1, Len(chunk_lines))
            \o FreshLines(chunks, i + 1, upto)

\* C30: for every file, language and max_lines > overlap_lines >= 0,
\* chunk_file returns its chunks in increasing order of start_line, the text
\* of each chunk is the lines start_line..end_line of the file, every line of
\* the file is in some chunk, and the chunks without the lines an earlier
\* chunk covers give back the file.
C30_ChunksCoverFile ==
    chunk_call # NoChunkCall =>
       LET lines == Split(chunk_call.content)
       IN /\ \A i, j \in DOMAIN returned_chunks :
                i < j => returned_chunks[i].start_line < returned_chunks[j].start_line
          /\ \A i \in DOMAIN returned_chunks :
                /\ 1 <= returned_chunks[i].start_line
                /\ returned_chunks[i].start_line <= returned_chunks[i].end_line
                /\ returned_chunks[i].end_line <= Len(lines)
                /\ returned_chunks[i].content =
                      Join(SubSeq(lines, returned_chunks[i].start_line,
                                  returned_chunks[i].end_line))
          /\ \A n \in DOMAIN lines :
                \E i \in DOMAIN returned_chunks :
                   returned_chunks[i].start_line <= n /\ n <= returned_chunks[i].end_line
          /\ Join(FreshLines(returned_chunks, 1, 0)) = chunk_call.content

\* a file of four lines with a definition in it was chunked by sections with
\* an overlap, into chunks that share a line
C30_Witness ==
    /\ chunk_call.language = "python"
    /\ chunk_call.overlap_lines = 1
    /\ Len(Split(chunk_call.content)) = 4
    /\ \E n \in 1..Len(chunk_call.content) : chunk_call.content[n] = "d"
    /\ \E i \in DOMAIN returned_chunks :
          i > 1 /\ returned_chunks[i].start_line = returned_chunks[i - 1].end_line

\* C31: an invocation of the project sync that marked the project syncing
\* ends by setting sync_status to completed (no error recorded) or to error (a
\* per-file error or a top-level exception); once every invocation has
\* returned or raised, the project is not left in syncing.
C31_NotLeftSyncing ==
    /\ [][\A t \in Callers :
            /\ (jobs[t].entered /\ cpc[t] = "running" /\ cpc'[t] = "returned")
                 => project_row'.sync_status \in {"completed", "error"}
            /\ (jobs[t].entered /\ cpc[t] = "running" /\ cpc'[t] = "raised")
                 => project_row'.sync_status = "error"]_vars
    /\ []((\A t \in Callers : cpc[t] \notin {"running", "rejected"})
           => project_row.sync_status # "syncing")

\* every embedding succeeds
AllEmbedded == SourceFiles \X (1..MaxChunks)

\* the chunk_hashes of the chunks the content now on disk is cut into
NewChunkHashes(f) == {compute_chunk_hash(disk[f][i]) : i \in 1..Len(disk[f])}

\* the path f can only be categorized as modified: it is on disk, it has
\* stored chunks and none of them carries the file_hash of the content on disk
SurelyModified(f) ==
    /\ f \in DOMAIN disk
    /\ ChunksForFile(f) # EmptyBag
    /\ \A old_hash \in OldHashes(f) : old_hash # compute_file_hash(disk[f])

\* C32: for a modified file whose new chunks all embed, the chunk-level diff
\* deletes exactly the stored chunks whose chunk_hash is not among the new
\* hashes, inserts the new chunks whose chunk_hash is not among the stored
\* ones and leaves the stored chunks with an unchanged chunk_hash in place;
\* afterwards the chunk_hashes stored for the file are those of the new chunks.
C32_DiffMakesStoreMatchNewChunks ==
    [][\A f \in SourceFiles :
         (SurelyModified(f) /\ NewChunkHashes(f) # {}
            /\ SyncProjectChanges(None, AllEmbedded))
         => /\ \A r \in BagToSet(ChunksForFile(f)) :
                  IF r.chunk_hash \in NewChunkHashes(f)
                  THEN CopiesIn(r, knowledge_chunks'[f]) = CopiesIn(r, ChunksForFile(f))
                  ELSE CopiesIn(r, knowledge_chunks'[f]) = 0
            /\ {r.chunk_hash : r \in BagToSet(knowledge_chunks'[f])}
                 = NewChunkHashes(f)]_vars

\* C33: a file whose content on disk is the content the last sync processed is
\* dropped as unchanged by every later sync: it is not categorized as modified,
\* re-chunked or re-embedded, whatever kept and inserted chunks the earlier
\* syncs left in the store for it.
C33_UnchangedFileIsDropped ==
    [][\A changed_files \in ChangedFilesArgs, embedded \in SUBSET AllEmbedded :
         (/\ synced
          /\ \A f \in DOMAIN disk : ChunksForFile(f) # EmptyBag
          /\ SyncProjectChanges(changed_files, embedded))
         => stats'.files_processed = 0]_vars

\* C34: whenever the circuit breaker is Open, last_failure_time is set, so
\* that a call made more than timeout seconds later is admitted as the
\* Half-Open trial; also when a call admitted while Closed ends after the
\* breaker has opened.
C34_OpenHasFailureTime ==
    /\ [](state = "open" => last_failure_time # NoTime)
    /\ [][\A t \in Callers :
            (state = "open" /\ last_failure_time # NoTime
             /\ now - last_failure_time > timeout /\ CallEnter(t))
            => (state' = "half_open" /\ cpc'[t] = "running")]_vars

\* C35: no execute_next call waits for an operation to be enqueued while it
\* holds a permit of the global semaphore: a call that passed the checks and
\* obtained a permit either runs an operation or returns.
C35_NoIdlePermitHolder ==
    \A t \in ExecTasks : qpc[t] # "wait_get"

\* C36: a flush fired by the debounce timer runs the callback to completion:
\* cancelling the project's timer inside the flush does not cancel the task
\* that executes the flush, so the sync the flushed events trigger is not
\* aborted at its first suspension point.
C36_TimerFlushRunsToCompletion ==
    [][\A p \in Watched :
         (timer_sync[p] # NoSync /\ last_flush.by = "timer")
         => ~TimerSyncAborted(p)]_vars

\* C38: the circuit breaker does not stay Half-Open: once the admitted trial
\* call has ended, by a normal return, an exception or the cancellation of the
\* calling task, the breaker is Closed or Open, so later calls are not
\* rejected for ever as "test call already in progress".
C38_HalfOpenHasTrialInProgress ==
    state = "half_open" => trials # {}

\* C39: a modification sync never deletes a stored chunk whose text is still
\* one of the chunks the chunker makes of the content now on disk, also when
\* the embedding of that unchanged chunk fails during the sync.
C39_UnchangedChunkIsKept ==
    [][\A changed_files \in ChangedFilesArgs, embedded \in SUBSET AllEmbedded,
          f \in SourceFiles :
         (SurelyModified(f) /\ SyncProjectChanges(changed_files, embedded))
         => \A r \in BagToSet(ChunksForFile(f)) :
               r.chunk_hash \in NewChunkHashes(f)
               => CopiesIn(r, knowledge_chunks'[f]) >= CopiesIn(r, ChunksForFile(f))]_vars

\* C40: when a sync ends with sync_status completed and no error recorded,
\* every chunk the chunker made of every candidate file categorized as added
\* or modified is in the store; a file that could not be read or whose
\* embeddings failed is reported in the errors instead.
C40_CompletedSyncStoredEveryChunk ==
    [][\A t \in Callers, changed_files \in ChangedFilesArgs,
          embedded \in SUBSET AllEmbedded, f \in SourceFiles :
         (/\ InternalReturned(t, changed_files, embedded)
          /\ project_row'.sync_status = "completed"
          /\ f \in DOMAIN disk
          /\ changed_files = None \/ f \in changed_files[1]
          /\ ChunksForFile(f) = EmptyBag \/ SurelyModified(f))
         => NewChunkHashes(f)
              \subseteq {r.chunk_hash : r \in BagToSet(knowledge_chunks'[f])}]_vars

\* C37: after any sequence of Worker.start, Worker.stop, discovery passes and
\* restarts by the HealthMonitor, every project in watched_projects has an
\* observer registered in the FileWatcher; so after a stop and a start the
\* next discovery pass watches every realtime auto-sync project again.
C37_WatchedProjectsHaveObservers ==
    /\ [](watched_projects \subseteq observers)
    /\ [][PollProjects(Discovered)
          => \A p \in Discovered : project_modes[p] = "realtime" => p \in observers']_vars

====
